---- MODULE Spec2Model ----
(***************************************************************************)
(* Model of the tick pipeline of Quant_Analytics: the Storage batching     *)
(* buffer and OHLC table (src/src/storage/database.py), the tick           *)
(* resampler (src/src/analytics/resampler.py) and the start-up / shutdown  *)
(* sequence of main (src/main.py).                                         *)
(*                                                                         *)
(* Timestamps are integers: milliseconds since midnight of one fixed day.  *)
(* Prices and sizes are integers.  The wall clock `now` counts seconds.    *)
(* A database write either takes effect or fails without effect; which of  *)
(* the two is the environment's choice at every write.                     *)
(***************************************************************************)
EXTENDS Integers, Sequences, FiniteSets, TLC

\* ------------------------------------------------------------------ bounds
\* number of process_tick calls explored
MaxTicks == 3
\* largest wall-clock reading explored (seconds)
MaxTime == 2
\* number of database writes the environment makes fail
MaxFaults == 1
\* config.py sets BUFFER_SIZE = 1000; the model runs with a small queue
BUFFER_SIZE == 2
\* config.py sets TICK_BATCH_SIZE = 100; the model runs the same code with a
\* small threshold so that the buffer reaches it
TICK_BATCH_SIZE == 2
\* config.py: TICK_BATCH_TIMEOUT = 1.0 (seconds)
TICK_BATCH_TIMEOUT == 1
\* config.py: RECONNECT_DELAY_BASE = 1.0, RECONNECT_MAX_DELAY = 8.0 (seconds)
RECONNECT_DELAY_BASE == 1
RECONNECT_MAX_DELAY == 8
\* how often get_interval_bucket is applied to its own result
MaxApplications == 2
\* config.py: CACHE_TTL_STATS = 5.0, CACHE_TTL_REGRESSION = 10.0 (seconds)
CACHE_TTL_STATS == 5
CACHE_TTL_REGRESSION == 10
\* the last reading of the engine's clock, in seconds: the longest TTL can expire
MaxEngineTime == 10

\* config.py: RESAMPLE_INTERVALS
RESAMPLE_INTERVALS == <<"1s", "1m", "5m">>

Intervals == {RESAMPLE_INTERVALS[n] : n \in DOMAIN RESAMPLE_INTERVALS}

\* the symbol field of the feed's messages
Symbols == {"BTCUSDT", "ETHUSDT"}

\* TradeData(symbol, timestamp, price, size)
TradeData(sym, ts, p, q) == [symbol |-> sym, timestamp |-> ts, price |-> p, size |-> q]

\* datetime(.., hour, minute, second, millisecond) as milliseconds since midnight
At(h, mi, sec, ms) == h * 3600000 + mi * 60000 + sec * 1000 + ms

\* The trades the feed may deliver (each any number of times, in any order).
Feed ==
  { TradeData("BTCUSDT", At(10, 0, 0, 100), 100, 1),
    TradeData("BTCUSDT", At(10, 0, 0, 900), 101, 2),
    TradeData("BTCUSDT", At(10, 0, 1, 200), 102, 1),
    TradeData("BTCUSDT", At(10, 5, 0, 250),  98, 2),
    TradeData("ETHUSDT", At(10, 0, 0, 100),  50, 3) }

\* ------------------------------------------------------- datetime helpers
Hour(t)        == t \div 3600000
Minute(t)      == (t \div 60000) % 60
Second(t)      == (t \div 1000) % 60
Millisecond(t) == t % 1000

\* datetime.replace(minute=, second=, microsecond=)
Replace(t, mi, s, ms) == Hour(t) * 3600000 + mi * 60000 + s * 1000 + ms

\* datetime.isoformat(): the fraction is printed only when it is not zero
IsoFormat(t) ==
  IF Millisecond(t) = 0
    THEN <<Hour(t), Minute(t), Second(t)>>
    ELSE <<Hour(t), Minute(t), Second(t), Millisecond(t)>>

ValueError == "ValueError"

\* the tags get_interval_bucket has a branch for
SupportedIntervals == {"1s", "1m", "5m", "15m", "1h"}

\* the end of the bucket instead of its start, for the minute-grid intervals
get_interval_bucket_end(timestamp, interval) ==
  CASE interval = "1s"  -> Replace(timestamp, Minute(timestamp), Second(timestamp), 0)
    [] interval = "1m"  -> Replace(timestamp, Minute(timestamp), 0, 0)
    [] interval = "5m"  -> Replace(timestamp, (Minute(timestamp) \div 5) * 5 + 5, 0, 0)
    [] interval = "15m" -> Replace(timestamp, (Minute(timestamp) \div 15) * 15 + 15, 0, 0)
    [] interval = "1h"  -> Replace(timestamp, 0, 0, 0)
    [] OTHER            -> ValueError

\* TickResampler.get_interval_bucket
get_interval_bucket(timestamp, interval) ==
  CASE interval = "1s"  -> Replace(timestamp, Minute(timestamp), Second(timestamp), 0)
    [] interval = "1m"  -> Replace(timestamp, Minute(timestamp), 0, 0)
    [] interval = "5m"  -> Replace(timestamp, (Minute(timestamp) \div 5) * 5, 0, 0)
    [] interval = "15m" -> Replace(timestamp, (Minute(timestamp) \div 15) * 15, 0, 0)
    [] interval = "1h"  -> Replace(timestamp, 0, 0, 0)
    [] OTHER            -> ValueError

\* ------------------------------------------------------- sequence helpers
RECURSIVE InsertSorted(_, _)
\* position of tick t in an ascending list: after every entry whose timestamp
\* is not greater (sorted() is stable)
InsertSorted(sorted, t) ==
  IF sorted = <<>> THEN <<t>>
  ELSE IF sorted[Len(sorted)].timestamp <= t.timestamp THEN Append(sorted, t)
  ELSE Append(InsertSorted(SubSeq(sorted, 1, Len(sorted) - 1), t), sorted[Len(sorted)])

RECURSIVE SortedByTimestamp(_)
\* sorted(ticks, key=lambda t: t.timestamp)
SortedByTimestamp(ticks) ==
  IF ticks = <<>> THEN <<>>
  ELSE InsertSorted(SortedByTimestamp(SubSeq(ticks, 1, Len(ticks) - 1)), ticks[Len(ticks)])

RECURSIVE SumSizes(_)
SumSizes(ticks) ==
  IF ticks = <<>> THEN 0 ELSE ticks[1].size + SumSizes(Tail(ticks))

Min(a, b) == IF a <= b THEN a ELSE b
MaxOf(S) == CHOOSE x \in S : \A y \in S : y <= x
MinOf(S) == CHOOSE x \in S : \A y \in S : x <= y

None == [none |-> TRUE]

\* _compute_ohlc without the sort: open and close in arrival order
compute_ohlc_unsorted(ticks, symbol, interval, bucket_start) ==
  IF ticks = <<>> THEN None
  ELSE LET prices == {ticks[n].price : n \in DOMAIN ticks}
       IN [symbol      |-> symbol,
           interval    |-> interval,
           timestamp   |-> bucket_start,
           open        |-> ticks[1].price,
           high        |-> MaxOf(prices),
           low         |-> MinOf(prices),
           close       |-> ticks[Len(ticks)].price,
           volume      |-> SumSizes(ticks),
           trade_count |-> Len(ticks)]

\* TickResampler._compute_ohlc
compute_ohlc(ticks, symbol, interval, bucket_start) ==
  IF ticks = <<>> THEN None
  ELSE LET sorted_ticks == SortedByTimestamp(ticks)
           prices == {sorted_ticks[n].price : n \in DOMAIN sorted_ticks}
       IN [symbol      |-> symbol,
           interval    |-> interval,
           timestamp   |-> bucket_start,
           open        |-> sorted_ticks[1].price,
           high        |-> MaxOf(prices),
           low         |-> MinOf(prices),
           close       |-> sorted_ticks[Len(sorted_ticks)].price,
           volume      |-> SumSizes(sorted_ticks),
           trade_count |-> Len(sorted_ticks)]

\* ------------------------------------------------------------- Storage
\* row of the ticks table (the AUTOINCREMENT id is the position in the log)
TickRow(tick) ==
  [symbol |-> tick.symbol, timestamp |-> IsoFormat(tick.timestamp),
   price |-> tick.price, size |-> tick.size]

\* a batch of the oldest buffered trade alone
batch_data_oldest(buffer) ==
  [n \in DOMAIN buffer \cap {1} |-> TickRow(buffer[n])]

\* batch_data of _flush_ticks
batch_data(buffer) == [n \in DOMAIN buffer |-> TickRow(buffer[n])]

\* _flush_ticks clearing the buffer whether or not the write succeeded
flush_ticks_clearing(buffer, table, lastFlushAt, clock, canWrite) ==
  IF buffer = <<>>
    THEN [tick_buffer |-> buffer, ticks |-> table, last_flush |-> lastFlushAt,
          outcome |-> "none"]
  ELSE IF canWrite
    THEN [tick_buffer |-> <<>>, ticks |-> table \o batch_data(buffer),
          last_flush |-> clock, outcome |-> "ok"]
  ELSE [tick_buffer |-> <<>>, ticks |-> table, last_flush |-> lastFlushAt,
        outcome |-> "failed"]

\* _flush_ticks stamping last_flush after a failed write as well
flush_ticks_stamping(buffer, table, lastFlushAt, clock, canWrite) ==
  IF buffer = <<>>
    THEN [tick_buffer |-> buffer, ticks |-> table, last_flush |-> lastFlushAt,
          outcome |-> "none"]
  ELSE IF canWrite
    THEN [tick_buffer |-> <<>>, ticks |-> table \o batch_data(buffer),
          last_flush |-> clock, outcome |-> "ok"]
  ELSE [tick_buffer |-> buffer, ticks |-> table, last_flush |-> clock,
        outcome |-> "failed"]

\* DatabaseManager._flush_ticks: the batch is written and committed as one
\* transaction; on an exception the buffer and last_flush are left alone.
\* outcome: "none" (nothing to flush), "ok", "failed"
flush_ticks(buffer, table, lastFlushAt, clock, canWrite) ==
  IF buffer = <<>>
    THEN [tick_buffer |-> buffer, ticks |-> table, last_flush |-> lastFlushAt,
          outcome |-> "none"]
  ELSE IF canWrite
    THEN [tick_buffer |-> <<>>, ticks |-> table \o batch_data(buffer),
          last_flush |-> clock, outcome |-> "ok"]
  ELSE [tick_buffer |-> buffer, ticks |-> table, last_flush |-> lastFlushAt,
        outcome |-> "failed"]

\* insert_tick flushing only once the buffer exceeds TICK_BATCH_SIZE
insert_tick_late(buffer, table, lastFlushAt, clock, tick, canWrite) ==
  LET appended        == Append(buffer, tick)
      buffer_full     == Len(appended) > TICK_BATCH_SIZE
      time_elapsed    == clock - lastFlushAt
      timeout_reached == time_elapsed >= TICK_BATCH_TIMEOUT
  IN IF buffer_full \/ timeout_reached
       THEN flush_ticks(appended, table, lastFlushAt, clock, canWrite)
       ELSE [tick_buffer |-> appended, ticks |-> table, last_flush |-> lastFlushAt,
             outcome |-> "none"]

\* DatabaseManager.insert_tick
insert_tick(buffer, table, lastFlushAt, clock, tick, canWrite) ==
  LET appended        == Append(buffer, tick)
      buffer_full     == Len(appended) >= TICK_BATCH_SIZE
      time_elapsed    == clock - lastFlushAt
      timeout_reached == time_elapsed >= TICK_BATCH_TIMEOUT
  IN IF buffer_full \/ timeout_reached
       THEN flush_ticks(appended, table, lastFlushAt, clock, canWrite)
       ELSE [tick_buffer |-> appended, ticks |-> table, last_flush |-> lastFlushAt,
             outcome |-> "none"]

\* PRIMARY KEY (symbol, interval, timestamp) of the ohlc table
OhlcKey(row) == <<row.symbol, row.interval, row.timestamp>>

\* plain INSERT INTO ohlc: a second row for a primary key is refused
sql_insert(table, row) ==
  IF \E r \in table : OhlcKey(r) = OhlcKey(row)
    THEN [table |-> table, error |-> "IntegrityError"]
    ELSE [table |-> table \cup {row}, error |-> "none"]

\* INSERT OR REPLACE INTO ohlc: a row with the same primary key is deleted
\* first, so the statement never fails on the key
sql_insert_or_replace(table, row) ==
  [table |-> {r \in table : OhlcKey(r) # OhlcKey(row)} \cup {row},
   error |-> "none"]

\* the row insert_ohlc binds to the statement
OhlcRow(symbol, interval, ohlc) ==
  [symbol |-> symbol, interval |-> interval,
   timestamp |-> IsoFormat(ohlc.timestamp),
   open |-> ohlc.open, high |-> ohlc.high, low |-> ohlc.low,
   close |-> ohlc.close, volume |-> ohlc.volume,
   trade_count |-> ohlc.trade_count]

\* DatabaseManager.insert_ohlc: every exception is caught and logged
insert_ohlc(table, symbol, interval, ohlc, canWrite) ==
  IF canWrite
    THEN sql_insert_or_replace(table, OhlcRow(symbol, interval, ohlc))
    ELSE [table |-> table, error |-> "OperationalError"]

\* ----------------------------------------------------------- Resampler
\* what a resampler operation leaves behind: the accumulators, the ohlc
\* table, the bars handed to insert_ohlc and the errors insert_ohlc logged
RState(bufs, table, calls, errors) ==
  [buffers |-> bufs, ohlc |-> table, calls |-> calls, errors |-> errors]

RECURSIVE InsertBars(_, _, _)
\* insert_ohlc for each bar of a set (the keys of the bars are distinct)
InsertBars(st, bars, canWrite) ==
  IF bars = {} THEN st
  ELSE LET bar == CHOOSE b \in bars : TRUE
           res == insert_ohlc(st.ohlc, bar.symbol, bar.interval, bar, canWrite)
       IN InsertBars(RState(st.buffers, res.table, st.calls \cup {bar},
                            st.errors \cup ({res.error} \ {"none"})),
                     bars \ {bar}, canWrite)

\* finalization without the del
DeleteBuckets_kept(bufs, symbol, interval, gone) == bufs

\* the accumulators of (symbol, interval) with every bucket of `gone` deleted
DeleteBuckets(bufs, symbol, interval, gone) ==
  [bufs EXCEPT ![symbol][interval] =
     [k \in (DOMAIN bufs[symbol][interval]) \ gone |-> bufs[symbol][interval][k]]]

\* self.buffers[symbol][interval][bucket_start].append(tick)
AppendToBucket(bufs, symbol, interval, bucket_start, tick) ==
  LET acc == bufs[symbol][interval]
  IN [bufs EXCEPT ![symbol][interval] =
        [k \in (DOMAIN acc) \cup {bucket_start} |->
           IF k = bucket_start
             THEN (IF k \in DOMAIN acc THEN Append(acc[k], tick) ELSE <<tick>>)
             ELSE acc[k]]]

\* the completion test with <= : the current bucket counts as complete
completed_buckets_inclusive(symbol_interval_buffers, current_bucket) ==
  {bucket_start \in DOMAIN symbol_interval_buffers : bucket_start <= current_bucket}

\* the buckets _finalize_completed_buckets selects
completed_buckets(symbol_interval_buffers, current_bucket) ==
  {bucket_start \in DOMAIN symbol_interval_buffers : bucket_start < current_bucket}

\* TickResampler._finalize_completed_buckets
finalize_completed_buckets(st, symbol, interval, current_time, canWrite) ==
  LET current_bucket == get_interval_bucket(current_time, interval)
      sib  == st.buffers[symbol][interval]
      done == completed_buckets(sib, current_bucket)
      bars == {compute_ohlc(sib[k], symbol, interval, k) : k \in done} \ {None}
      ins  == InsertBars(st, bars, canWrite)
  IN RState(DeleteBuckets(st.buffers, symbol, interval, done),
            ins.ohlc, ins.calls, ins.errors)

\* _process_tick_for_interval without the append to the accumulator
process_tick_for_interval_finalizing(st, tick, interval, canWrite) ==
  finalize_completed_buckets(st, tick.symbol, interval, tick.timestamp, canWrite)

\* TickResampler._process_tick_for_interval
process_tick_for_interval(st, tick, interval, canWrite) ==
  LET bucket_start == get_interval_bucket(tick.timestamp, interval)
      added == AppendToBucket(st.buffers, tick.symbol, interval, bucket_start, tick)
  IN finalize_completed_buckets(RState(added, st.ohlc, st.calls, st.errors),
                                tick.symbol, interval, tick.timestamp, canWrite)

RECURSIVE process_intervals(_, _, _, _, _)
\* the loop `for interval in self.intervals` of process_tick, from position n;
\* for a tag get_interval_bucket has no branch for, its ValueError leaves the
\* loop and reaches the `except Exception` of process_tick, which logs it
process_intervals(tags, st, tick, n, canWrite) ==
  IF n > Len(tags) THEN st
  ELSE IF tags[n] \notin SupportedIntervals
    THEN RState(st.buffers, st.ohlc, st.calls, st.errors \cup {ValueError})
  ELSE process_intervals(
         tags, process_tick_for_interval(st, tick, tags[n], canWrite),
         tick, n + 1, canWrite)

\* process_tick: `except Exception as e: logger.error(...)` ends the call
\* normally whatever was raised inside it
process_tick_raises(errors) == "none"

\* flush_remaining skipping, per symbol, the newest bucket (the one no later
\* trade has completed)
remaining_bars_completed(bufs, interval) ==
  UNION {{compute_ohlc(bufs[s][interval][k], s, interval, k) :
            k \in {b \in DOMAIN bufs[s][interval] :
                     \E c \in DOMAIN bufs[s][interval] : b < c}} : s \in DOMAIN bufs}
    \ {None}

\* the bars flush_remaining builds: one per accumulator, none deleted
remaining_bars(bufs, interval) ==
  UNION {{compute_ohlc(bufs[s][interval][k], s, interval, k) :
            k \in DOMAIN bufs[s][interval]} : s \in DOMAIN bufs} \ {None}

RECURSIVE flush_intervals(_, _, _)
\* TickResampler.flush_remaining, the intervals taken one after the other
flush_intervals(st, todo, canWrite) ==
  IF todo = {} THEN st
  ELSE LET i == CHOOSE x \in todo : TRUE
       IN flush_intervals(InsertBars(st, remaining_bars(st.buffers, i), canWrite),
                          todo \ {i}, canWrite)

\* ------------------------------------------------------------------ state
VARIABLES
  now,          \* datetime.now(), in seconds
  tick_buffer,  \* DatabaseManager.tick_buffer
  last_flush,   \* DatabaseManager.last_flush
  conn,         \* DatabaseManager.conn: "open" or "closed"
  ticks,        \* the rows of table ticks, in id order
  ohlc,         \* the rows of table ohlc
  buffers,      \* TickResampler.buffers[symbol][interval][bucket_start]
  processed,    \* history: the trades passed to process_tick, in call order
  last,         \* history: what the last operation did
  unwritten,    \* history: the buffer at the last failed flush not yet made good
  faults,       \* number of write failures injected so far
  pc,           \* main's position
  running,      \* BinanceWebSocketClient.running
  tasks,        \* state of each per-symbol ingestion task
  queues,       \* BinanceWebSocketClient.queues
  tick_counts,  \* BinanceWebSocketClient.tick_counts
  received,     \* number of feed messages handled
  resample_task,\* state of the task running resample_and_persist
  position,     \* index in client.symbols the drain loop is at
  shutdown_log, \* history: the shutdown steps taken, in order
  retry_delay,  \* _connect_and_consume: retry_delay of each per-symbol task
  enqueued,     \* history: per symbol, the trades put on its queue, in order
  delivered,    \* history: per symbol, the trades get_next_tick returned, in order
  dropped,      \* history: per symbol, the "Queue full" warnings logged
  intervals,    \* TickResampler.intervals
  bucket_in,    \* the arguments of a get_interval_bucket call
  bucket_out,   \* the keys returned by get_interval_bucket applied again and again
  etime,        \* datetime.now() as the AnalyticsEngine reads it, in seconds
  cache,        \* AnalyticsEngine._cache
  cache_time,   \* AnalyticsEngine._cache_time
  response,     \* history: the last request to the engine and what it returned
  refreshed,    \* history: per cache key, when its last forced refresh completed
  raised,       \* what the last operation raised to its caller
  steps,        \* history: the sub-analyzer calls the last pairs request made, in order
  loop,         \* the task running update_analytics_loop
  flight,       \* the _flush_ticks call suspended in an await, if any
  call,         \* the arguments of an analyzer or query call
  ret           \* what the call returned, once it has returned

dbVars     == <<tick_buffer, last_flush, conn, ticks, ohlc>>
pipeVars   == <<tick_buffer, last_flush, conn, ticks, ohlc, buffers, processed,
                last, unwritten, faults, raised>>
clientVars == <<running, tasks, queues, tick_counts, received, retry_delay,
                enqueued, delivered, dropped>>
mainVars   == <<pc, resample_task, position, shutdown_log, clientVars>>
\* what is set at construction and the variables of the other components
bucketVars == <<bucket_in, bucket_out>>
engineVars == <<etime, cache, cache_time, response, refreshed, loop>>
callVars   == <<call, ret>>
auxVars    == <<intervals, flight, bucket_in, bucket_out, engineVars, steps, callVars>>
vars       == <<now, tick_buffer, last_flush, conn, ticks, ohlc, buffers, processed,
                last, unwritten, faults, pc, running, tasks, queues, tick_counts,
                received, resample_task, position, shutdown_log, retry_delay,
                enqueued, delivered, dropped, intervals, raised, bucket_in,
                bucket_out, etime, cache, cache_time, response, refreshed, steps, call, ret,
                loop, flight>>

\* config.py: SYMBOLS, as BinanceWebSocketClient.symbols holds them
ClientSymbols == <<"btcusdt", "ethusdt">>

\* the symbol field ("s") of the messages of a symbol's stream
StreamSymbol == [btcusdt |-> "BTCUSDT", ethusdt |-> "ETHUSDT"]

ClientSymbolSet == {ClientSymbols[n] : n \in DOMAIN ClientSymbols}

NoBuckets == [k \in {} |-> <<>>]

Last(op, flushed, calls, errors) ==
  [op |-> op, flush |-> flushed, calls |-> calls, errors |-> errors]

\* a _flush_ticks call between its awaits: the await it is suspended in
\* ("executemany", "commit"; "idle" when no flush is under way), the
\* batch_data it built, its caller, and the trade whose process_tick is
\* waiting for insert_tick to return
Flight(phase, batch, caller, pending) ==
  [phase |-> phase, batch |-> batch, caller |-> caller, pending |-> pending]

NoFlight == Flight("idle", <<>>, "none", <<>>)

InitMain ==
  /\ now = 0
  /\ tick_buffer = <<>>
  /\ last_flush = 0
  /\ conn = "open"
  /\ ticks = <<>>
  /\ ohlc = {}
  /\ buffers = [s \in Symbols |-> [i \in Intervals |-> NoBuckets]]
  /\ processed = <<>>
  /\ last = Last("init", "none", {}, {})
  /\ unwritten = <<>>
  /\ faults = 0
  /\ pc = "start"
  /\ running = FALSE
  /\ tasks = [s \in ClientSymbolSet |-> "none"]
  /\ queues = [s \in ClientSymbolSet |-> <<>>]
  /\ tick_counts = [s \in ClientSymbolSet |-> 0]
  /\ received = 0
  /\ resample_task = "none"
  /\ position = 1
  /\ shutdown_log = <<>>
  /\ retry_delay = [s \in ClientSymbolSet |-> RECONNECT_DELAY_BASE]
  /\ enqueued = [s \in ClientSymbolSet |-> <<>>]
  /\ delivered = [s \in ClientSymbolSet |-> <<>>]
  /\ dropped = [s \in ClientSymbolSet |-> 0]
  /\ raised = "none"

\* a request to the engine and its outcome; computed tells what the
\* sub-analyzers yielded when they were run ("result" or "none"), "no" otherwise
Response(category, args, force, key, computed, result) ==
  [category |-> category, args |-> args, force |-> force, key |-> key,
   computed |-> computed, result |-> result]

\* the task of update_analytics_loop: where it is ("none" before it is
\* created, "warmup", "cycle", "sleep", "cancelled", "terminated"), the
\* target the cycle is at, the cycles started, and how the cycle before ended
Loop(at, target, cycles, previous) ==
  [pc |-> at, target |-> target, cycles |-> cycles, previous |-> previous]

\* AnalyticsEngine.__init__: both maps empty
InitEngine ==
  /\ etime = 0
  /\ cache = [k \in {} |-> None]
  /\ cache_time = [k \in {} |-> 0]
  /\ response = Response("none", <<>>, FALSE, <<>>, "no", None)
  /\ refreshed = [k \in {} |-> 0]
  /\ steps = <<>>
  /\ loop = Loop("none", 0, 0, "none")

\* no analyzer or query call under study
InitCallIdle ==
  /\ call = [op |-> "none"]
  /\ ret = <<>>

\* no get_interval_bucket call under study
InitBucketIdle ==
  /\ bucket_in = [timestamp |-> 0, interval |-> "1s"]
  /\ bucket_out = <<>>

\* TickResampler(db) takes config.RESAMPLE_INTERVALS
Init ==
  /\ InitMain
  /\ intervals = RESAMPLE_INTERVALS
  /\ flight = NoFlight
  /\ InitBucketIdle
  /\ InitEngine
  /\ InitCallIdle

\* the writes the environment makes fail during one call: the tick batch
\* ("ticks") and/or the bar writes ("bars")
WriteKinds == {"ticks", "bars"}

\* a write takes effect when the connection is open and it is not made to fail
CanWrite(kind, failing) == conn = "open" /\ kind \notin failing

\* the buffer a failed flush leaves unwritten, until a flush succeeds
Unwritten(outcome, buffer) ==
  CASE outcome = "failed" -> buffer
    [] outcome = "ok"     -> <<>>
    [] OTHER              -> unwritten

\* a failure is injected only into a write that is attempted
Effective(failing, outcome, calls) ==
  /\ failing # {} => conn = "open"
  /\ "ticks" \in failing => outcome = "failed"
  /\ "bars" \in failing => calls # {}

\* TickResampler.process_tick(tick)
ProcessTick(tick, failing) ==
  /\ Len(processed) < MaxTicks
  /\ faults + Cardinality(failing) <= MaxFaults
  /\ LET db == insert_tick(tick_buffer, ticks, last_flush, now, tick,
                           CanWrite("ticks", failing))
         rs == process_intervals(intervals, RState(buffers, ohlc, {}, {}), tick, 1,
                                 CanWrite("bars", failing))
     IN /\ Effective(failing, db.outcome, rs.calls)
        /\ tick_buffer' = db.tick_buffer
        /\ ticks' = db.ticks
        /\ last_flush' = db.last_flush
        /\ unwritten' = Unwritten(db.outcome, db.tick_buffer)
        /\ buffers' = rs.buffers
        /\ ohlc' = rs.ohlc
        /\ last' = Last("process_tick", db.outcome, rs.calls, rs.errors)
        /\ raised' = process_tick_raises(rs.errors)
  /\ processed' = Append(processed, tick)
  /\ faults' = faults + Cardinality(failing)
  /\ UNCHANGED conn

\* TickResampler.flush_remaining()
FlushRemaining(failing) ==
  /\ faults + Cardinality(failing) <= MaxFaults
  /\ LET rs == flush_intervals(RState(buffers, ohlc, {}, {}), Intervals,
                               CanWrite("bars", failing))
     IN /\ Effective(failing, "none", rs.calls)
        /\ ohlc' = rs.ohlc
        /\ buffers' = rs.buffers
        /\ last' = Last("flush_remaining", "none", rs.calls, rs.errors)
  /\ raised' = "none"
  /\ faults' = faults + Cardinality(failing)
  /\ UNCHANGED <<tick_buffer, last_flush, conn, ticks, processed, unwritten>>

\* DatabaseManager.close()
Close(failing) ==
  /\ conn = "open"
  /\ faults + Cardinality(failing) <= MaxFaults
  /\ LET db == flush_ticks(tick_buffer, ticks, last_flush, now,
                           CanWrite("ticks", failing))
     IN /\ Effective(failing, db.outcome, {})
        /\ tick_buffer' = db.tick_buffer
        /\ ticks' = db.ticks
        /\ last_flush' = db.last_flush
        /\ unwritten' = Unwritten(db.outcome, db.tick_buffer)
        /\ last' = Last("close", db.outcome, {}, {})
  /\ raised' = "none"
  /\ conn' = "closed"
  /\ faults' = faults + Cardinality(failing)
  /\ UNCHANGED <<ohlc, buffers, processed>>

\* the wall clock advances
ClockTick ==
  /\ now < MaxTime
  /\ now' = now + 1

\* ------------------------------------------------------------ the Resampler
\* called by any caller in any order; the bar writes may fail
ResampleTick ==
  /\ \E tick \in Feed, failing \in SUBSET {"bars"} : ProcessTick(tick, failing)
  /\ UNCHANGED <<now, mainVars, auxVars>>

ResampleFlush ==
  /\ \E failing \in SUBSET {"bars"} : FlushRemaining(failing)
  /\ UNCHANGED <<now, mainVars, auxVars>>

Next == ResampleTick \/ ResampleFlush

Spec == Init /\ [][Next]_vars

\* a TickResampler constructed with an interval list that holds a tag
\* get_interval_bucket does not know
MisconfiguredIntervals ==
  {<<"1s", "2m", "1m">>, <<"2m", "1s", "1m", "5m">>, <<"1s", "1m", "5m", "2m">>}

InitMisconfigured ==
  /\ InitMain
  /\ intervals \in MisconfiguredIntervals
  /\ flight = NoFlight
  /\ InitBucketIdle
  /\ InitEngine
  /\ InitCallIdle

MisconfiguredSpec == InitMisconfigured /\ [][Next]_vars

\* ------------------------------------------------------- the bucket key
\* get_interval_bucket over timestamps on and around the bucket boundaries
\* and every supported interval
BucketTimestamps ==
  {At(h, mi, sec, ms) : h \in {0, 10, 23}, mi \in {0, 4, 5, 14, 15, 18, 44, 59},
                        sec \in {0, 1, 59}, ms \in {0, 1, 999}}

InitBucket ==
  /\ InitMain
  /\ intervals = RESAMPLE_INTERVALS
  /\ flight = NoFlight
  /\ bucket_in \in [timestamp : BucketTimestamps, interval : SupportedIntervals]
  /\ bucket_out = <<>>
  /\ InitEngine
  /\ InitCallIdle

\* get_interval_bucket(timestamp, interval), then again on the key it returned
ApplyBucket ==
  /\ Len(bucket_out) < MaxApplications
  /\ bucket_out' = Append(bucket_out,
                          get_interval_bucket(IF bucket_out = <<>>
                                                THEN bucket_in.timestamp
                                                ELSE bucket_out[Len(bucket_out)],
                                              bucket_in.interval))
  /\ UNCHANGED <<now, pipeVars, mainVars, intervals, flight, bucket_in, engineVars, steps,
                 callVars>>

BucketNext == ApplyBucket

BucketSpec == InitBucket /\ [][BucketNext]_vars

\* ------------------------------------------------------ Storage queries
RECURSIVE TextLess(_, _)
\* a < b on two TEXT values holding isoformat() strings: character by
\* character, and a proper prefix sorts first (every field but the optional
\* fraction has a fixed width, so a field compares as its number does)
TextLess(a, b) ==
  IF a = <<>> THEN b # <<>>
  ELSE IF b = <<>> THEN FALSE
  ELSE IF Head(a) # Head(b) THEN Head(a) < Head(b)
  ELSE TextLess(Tail(a), Tail(b))

\* timestamp BETWEEN ? AND ?
Between(text, low, high) == ~TextLess(text, low) /\ ~TextLess(high, text)

\* datetime.fromisoformat
fromisoformat(text) ==
  At(text[1], text[2], text[3], IF Len(text) = 4 THEN text[4] ELSE 0)

\* ORDER BY timestamp ASC over the rows at the given positions of a table:
\* every order of the positions that is ascending by the timestamp column
\* (SQL leaves the order of rows with equal timestamps open)
order_by_timestamp(table, positions) ==
  LET n == Cardinality(positions)
  IN {o \in [1..n -> positions] :
        /\ \A i, j \in 1..n : i # j => o[i] # o[j]
        /\ \A i, j \in 1..n : i < j => ~TextLess(table[o[j]].timestamp,
                                                   table[o[i]].timestamp)}

\* an optional argument: <<>> is None, <<n>> is the value n
NoLimit == <<>>

\* `if limit: query += f" LIMIT {limit}"`: None and 0 add no LIMIT clause;
\* a negative LIMIT is no limit to SQLite
sql_limit(order, limit) ==
  IF limit # NoLimit /\ limit[1] # 0
    THEN SubSeq(order, 1, Min(Len(order), IF limit[1] < 0 THEN Len(order) ELSE limit[1]))
    ELSE order

\* DatabaseManager.get_ticks: the lists the call may return; an exception
\* of the query is caught and [] returned
get_ticks(table, symbol, start, end, limit, canRead) ==
  IF ~canRead THEN {<<>>}
  ELSE LET selected == {n \in DOMAIN table :
                          /\ table[n].symbol = symbol
                          /\ Between(table[n].timestamp, IsoFormat(start), IsoFormat(end))}
       IN {[n \in DOMAIN sql_limit(o, limit) |->
              TradeData(table[o[n]].symbol, fromisoformat(table[o[n]].timestamp),
                        table[o[n]].price, table[o[n]].size)] :
             o \in order_by_timestamp(table, selected)}

\* OHLCData(...)
OHLCData(symbol, interval, timestamp, open, high, low, close, volume, trade_count) ==
  [symbol |-> symbol, interval |-> interval, timestamp |-> timestamp,
   open |-> open, high |-> high, low |-> low, close |-> close,
   volume |-> volume, trade_count |-> trade_count]

RECURSIVE ascending(_)
\* ORDER BY timestamp ASC over rows of which no two have the same timestamp
ascending(rows) ==
  IF rows = {} THEN <<>>
  ELSE LET first == CHOOSE r \in rows :
                      \A q \in rows : ~TextLess(q.timestamp, r.timestamp)
       IN <<first>> \o ascending(rows \ {first})

\* DatabaseManager.get_ohlc; the primary key leaves no two selected rows
\* with the same timestamp, so the order is fixed
get_ohlc(table, symbol, interval, start, end, limit, canRead) ==
  IF ~canRead THEN <<>>
  ELSE LET selected == {r \in table :
                          /\ r.symbol = symbol
                          /\ r.interval = interval
                          /\ Between(r.timestamp, IsoFormat(start), IsoFormat(end))}
           rows == sql_limit(ascending(selected), limit)
       IN [n \in DOMAIN rows |->
             OHLCData(rows[n].symbol, rows[n].interval, fromisoformat(rows[n].timestamp),
                      rows[n].open, rows[n].high, rows[n].low, rows[n].close,
                      rows[n].volume, rows[n].trade_count)]

\* the bar the resampler stores for a bucket: its prices and volume are told
\* apart by symbol and minute
StoredBar(symbol, interval, bucket_start) ==
  LET price == (IF symbol = "BTCUSDT" THEN 100 ELSE 50) + Minute(bucket_start)
  IN OhlcRow(symbol, interval,
             [timestamp |-> bucket_start, open |-> price, high |-> price,
              low |-> price, close |-> price, volume |-> 1 + Minute(bucket_start),
              trade_count |-> 1])

\* the ohlc tables a query is run on: any set of bars at bucket starts
MaxRows == 3
QueryBarKeys ==
  {k \in (Symbols \X {"1m", "5m"} \X {At(10, 0, 0, 0), At(10, 1, 0, 0), At(10, 5, 0, 0)}) :
     /\ get_interval_bucket(k[3], k[2]) = k[3]
     /\ k[1] = "ETHUSDT" => k[2] = "1m"}
QueryOhlcTables ==
  {{StoredBar(k[1], k[2], k[3]) : k \in keys} : keys \in SUBSET QueryBarKeys}

\* the ticks tables a query is run on: up to MaxRows trades, in any order
QueryTrades ==
  {TradeData(sym, t, 100, 1) :
     sym \in Symbols, t \in {At(10, 0, 0, 0), At(10, 0, 0, 500), At(10, 0, 1, 0)}}
QueryTickTables ==
  UNION {{batch_data(b) : b \in [1..n -> QueryTrades]} : n \in 0..MaxRows}

QueryLimits == {NoLimit, <<0>>, <<1>>, <<2>>}

InitQuery ==
  /\ InitMain
  /\ intervals = RESAMPLE_INTERVALS
  /\ flight = NoFlight
  /\ InitBucketIdle
  /\ InitEngine
  /\ ret = <<>>
  /\ \/ /\ call \in [op : {"get_ticks"}, symbol : Symbols,
                     start : {At(10, 0, 0, 0), At(10, 0, 0, 500)},
                     end : {At(10, 0, 0, 500), At(10, 0, 1, 0)},
                     limit : QueryLimits, canRead : BOOLEAN,
                     ticks : QueryTickTables]
     \/ /\ call \in [op : {"get_ohlc"}, symbol : Symbols, interval : {"1m", "5m"},
                     start : {At(10, 0, 0, 0), At(10, 1, 0, 0)},
                     end : {At(10, 1, 0, 0), At(10, 5, 0, 0)},
                     limit : QueryLimits, canRead : BOOLEAN,
                     ohlc : QueryOhlcTables]

\* await db.get_ticks(symbol, start, end, limit)
GetTicks ==
  /\ call.op = "get_ticks"
  /\ ret = <<>>
  /\ \E rows \in get_ticks(call.ticks, call.symbol, call.start, call.end, call.limit,
                            call.canRead) : ret' = <<rows>>
  /\ UNCHANGED <<now, pipeVars, mainVars, intervals, flight, bucketVars, engineVars, steps, call>>

\* await db.get_ohlc(symbol, interval, start, end, limit)
GetOhlc ==
  /\ call.op = "get_ohlc"
  /\ ret = <<>>
  /\ ret' = <<get_ohlc(call.ohlc, call.symbol, call.interval, call.start, call.end,
                       call.limit, call.canRead)>>
  /\ UNCHANGED <<now, pipeVars, mainVars, intervals, flight, bucketVars, engineVars, steps, call>>

QueryNext == GetTicks \/ GetOhlc

QuerySpec == InitQuery /\ [][QueryNext]_vars

\* ------------------------------------------------------------ statistics
\* the lengths of the series and the windows a z-score is asked for
MaxLen == 4
ZscoreValues == UNION {[1..n -> {1, 2, 4}] : n \in 0..MaxLen}
ZscoreWindows == -1..(MaxLen + 1)

RECURSIVE Sum(_)
Sum(values) == IF values = <<>> THEN 0 ELSE Head(values) + Sum(Tail(values))

RECURSIVE SumSq(_)
SumSq(values) ==
  IF values = <<>> THEN 0 ELSE Head(values) * Head(values) + SumSq(Tail(values))

\* a float: NaN, or the quotient of the deviation from the window's mean and
\* the window's sample standard deviation, both kept exact:
\*   z = num / sqrt(ss * window / (window - 1))
\* with num = window * value - sum and ss = window * sum of squares - sum^2
NaN == [nan |-> TRUE]
ZScore(num, ss, window) == [nan |-> FALSE, num |-> num, ss |-> ss, window |-> window]
isnan(x) == x.nan

\* (series - series.rolling(window).mean()) / series.rolling(window).std(ddof=1)
\* at position i: the rolling values are NaN until the window is full, the
\* sample deviation of one value is NaN, and 0 / 0 is NaN
rolling_zscore(values, window, i) ==
  IF i < window \/ window < 2 THEN NaN
  ELSE LET win == SubSeq(values, i - window + 1, i)
           ss == window * SumSq(win) - Sum(win) * Sum(win)
       IN IF ss = 0 THEN NaN ELSE ZScore(window * values[i] - Sum(win), ss, window)

\* the z-scores with the undefined entries left out
compute_zscore_dropna(values, window) ==
  IF Len(values) < window \/ window < 0 THEN <<>>
  ELSE SelectSeq([i \in 1..Len(values) |-> rolling_zscore(values, window, i)],
                 LAMBDA z : ~isnan(z))

\* StatisticsCalculator.compute_zscore; a negative window makes rolling()
\* raise ValueError, which the handler turns into the all-NaN list
compute_zscore(values, window) ==
  IF Len(values) < window \/ window < 0 THEN [i \in 1..Len(values) |-> NaN]
  ELSE [i \in 1..Len(values) |-> rolling_zscore(values, window, i)]

\* the exception handler left out: the exception goes on to the caller
except_reraise(fallback) == [value |-> fallback, raised |-> "Exception"]

\* `except Exception as e: logger.error(...); return <fallback>`, the handler
\* around the whole body of every sub-analyzer operation
except_Exception(fallback) == [value |-> fallback, raised |-> "none"]

\* config.MIN_DATA_POINTS_STATS, scaled down
MIN_DATA_POINTS_STATS == 2

\* end - timedelta(hours=24); an hour below 0 stands for the day before,
\* whose isoformat() text sorts before every text of the day
Lookback(clock, hours) == clock - hours * 3600000

\* PriceStats(...): mean = sum / window_size, and the sample deviation is
\* kept as ss = window_size * sum of squares - sum^2
PriceStats(symbol, interval, prices, clock) ==
  [symbol |-> symbol, interval |-> interval, window_size |-> Len(prices),
   sum |-> Sum(prices), ss |-> Len(prices) * SumSq(prices) - Sum(prices) * Sum(prices),
   min |-> MinOf({prices[n] : n \in DOMAIN prices}),
   max |-> MaxOf({prices[n] : n \in DOMAIN prices}),
   current |-> prices[Len(prices)],
   change_pct |-> IF prices[1] # 0
                    THEN <<(prices[Len(prices)] - prices[1]) * 100, prices[1]>>
                    ELSE <<0, 1>>,
   timestamp |-> clock]

\* VolumeStats(...)
VolumeStats(symbol, interval, volumes, clock) ==
  [symbol |-> symbol, interval |-> interval, window_size |-> Len(volumes),
   sum |-> Sum(volumes),
   ss |-> Len(volumes) * SumSq(volumes) - Sum(volumes) * Sum(volumes),
   total_volume |-> Sum(volumes), timestamp |-> clock]

\* the bars a statistic is computed over: db.get_ohlc(symbol, interval,
\* end - 24 h, end, limit=window)
stats_bars(table, symbol, interval, window, clock, canRead) ==
  get_ohlc(table, symbol, interval, Lookback(clock, 24), clock, <<window>>, canRead)

\* StatisticsCalculator.compute_price_stats; `fault` is an exception raised
\* inside the try block, which the handler turns into None
compute_price_stats(table, symbol, interval, window, clock, canRead, fault) ==
  LET bars == stats_bars(table, symbol, interval, window, clock, canRead)
  IN IF fault THEN except_Exception(None)
     ELSE IF Len(bars) < MIN_DATA_POINTS_STATS THEN [value |-> None, raised |-> "none"]
     ELSE [value |-> PriceStats(symbol, interval, [n \in DOMAIN bars |-> bars[n].close],
                                clock),
           raised |-> "none"]

\* StatisticsCalculator.compute_volume_stats
compute_volume_stats(table, symbol, interval, window, clock, canRead, fault) ==
  LET bars == stats_bars(table, symbol, interval, window, clock, canRead)
  IN IF fault THEN except_Exception(None)
     ELSE IF Len(bars) < MIN_DATA_POINTS_STATS THEN [value |-> None, raised |-> "none"]
     ELSE [value |-> VolumeStats(symbol, interval, [n \in DOMAIN bars |-> bars[n].volume],
                                 clock),
           raised |-> "none"]

\* the 1m bars a statistic may find stored: any of the first MaxBars minutes
\* after 10:00, for either symbol
MaxBars == 4
BarTimes == {At(10, m, 0, 0) : m \in 0..(MaxBars - 1)}
BarTables(symbol) ==
  {{StoredBar(symbol, "1m", t) : t \in times} : times \in SUBSET BarTimes}
StatsClock == At(12, 0, 0, 0)

StatsCalls ==
  [op : {"compute_price_stats", "compute_volume_stats"},
   symbol : {"BTCUSDT"}, interval : {"1m"}, window : 0..MaxBars,
   canRead : BOOLEAN, fault : BOOLEAN, ohlc : BarTables("BTCUSDT"),
   clock : {StatsClock}]

InitStats ==
  /\ InitMain
  /\ intervals = RESAMPLE_INTERVALS
  /\ flight = NoFlight
  /\ InitBucketIdle
  /\ InitEngine
  /\ ret = <<>>
  /\ call \in StatsCalls

\* await stats_calc.compute_price_stats(symbol, interval, window)
ComputePriceStats ==
  /\ call.op = "compute_price_stats"
  /\ ret = <<>>
  /\ ret' = <<compute_price_stats(call.ohlc, call.symbol, call.interval, call.window,
                                  call.clock, call.canRead, call.fault)>>
  /\ UNCHANGED <<now, pipeVars, mainVars, intervals, flight, bucketVars, engineVars, steps, call>>

\* await stats_calc.compute_volume_stats(symbol, interval, window)
ComputeVolumeStats ==
  /\ call.op = "compute_volume_stats"
  /\ ret = <<>>
  /\ ret' = <<compute_volume_stats(call.ohlc, call.symbol, call.interval, call.window,
                                   call.clock, call.canRead, call.fault)>>
  /\ UNCHANGED <<now, pipeVars, mainVars, intervals, flight, bucketVars, engineVars, steps, call>>

StatsNext == ComputePriceStats \/ ComputeVolumeStats

StatsSpec == InitStats /\ [][StatsNext]_vars

InitZscore ==
  /\ InitMain
  /\ intervals = RESAMPLE_INTERVALS
  /\ flight = NoFlight
  /\ InitBucketIdle
  /\ InitEngine
  /\ call \in [op : {"compute_zscore"}, values : ZscoreValues, window : ZscoreWindows]
  /\ ret = <<>>

\* await stats_calc.compute_zscore(values, window)
ComputeZscore ==
  /\ call.op = "compute_zscore"
  /\ ret = <<>>
  /\ ret' = <<compute_zscore(call.values, call.window)>>
  /\ UNCHANGED <<now, pipeVars, mainVars, intervals, flight, bucketVars, engineVars, steps, call>>

ZscoreNext == ComputeZscore

ZscoreSpec == InitZscore /\ [][ZscoreNext]_vars

\* ------------------------------------------------------------ correlation
\* config.MIN_DATA_POINTS_CORRELATION, scaled down
MIN_DATA_POINTS_CORRELATION == 3

\* the default of compute_rolling_correlation's lookback
LOOKBACK == 1440

RECURSIVE SumProd(_, _)
SumProd(xs, ys) ==
  IF xs = <<>> THEN 0 ELSE Head(xs) * Head(ys) + SumProd(Tail(xs), Tail(ys))

\* {bar.timestamp: bar.close for bar in bars}
CloseByTimestamp(bars) ==
  [t \in {bars[n].timestamp : n \in DOMAIN bars} |->
     bars[CHOOSE n \in DOMAIN bars :
            /\ bars[n].timestamp = t
            /\ \A k \in DOMAIN bars : bars[k].timestamp = t => k <= n].close]

RECURSIVE Sorted(_)
\* sorted(set of datetimes)
Sorted(S) ==
  IF S = {} THEN <<>> ELSE <<MinOf(S)>> \o Sorted(S \ {MinOf(S)})

\* sequence[-n:]
LastN(sequence, n) ==
  IF n <= 0 \/ n >= Len(sequence) THEN sequence
  ELSE SubSeq(sequence, Len(sequence) - n + 1, Len(sequence))

\* a Pearson coefficient, kept exact: num / sqrt(varx * vary), with
\* num = w * sum(xy) - sum(x) sum(y) and var = w * sum of squares - sum^2
Pearson(num, varx, vary) == [nan |-> FALSE, num |-> num, varx |-> varx, vary |-> vary]

\* df['x'].rolling(window).corr(df['y']) at position i: NaN until the window
\* is full and where a window has no variance
rolling_corr(xs, ys, window, i) ==
  IF i < window \/ window < 1 THEN NaN
  ELSE LET wx == SubSeq(xs, i - window + 1, i)
           wy == SubSeq(ys, i - window + 1, i)
           varx == window * SumSq(wx) - Sum(wx) * Sum(wx)
           vary == window * SumSq(wy) - Sum(wy) * Sum(wy)
       IN IF varx = 0 \/ vary = 0 THEN NaN
          ELSE Pearson(window * SumProd(wx, wy) - Sum(wx) * Sum(wy), varx, vary)

\* the float 0.0 reported when the history is empty
ZeroCorrelation == [nan |-> FALSE, num |-> 0, varx |-> 1, vary |-> 1]

\* CorrelationResult(...)
CorrelationResult(symbol_x, symbol_y, interval, window, history, clock) ==
  [symbol_x |-> symbol_x, symbol_y |-> symbol_y, interval |-> interval,
   correlation |-> IF history = <<>> THEN ZeroCorrelation
                   ELSE history[Len(history)][2],
   rolling_window |-> window, correlation_history |-> history, timestamp |-> clock]

\* the bars of one symbol as the analyzers fetch them
fetch_bars(table, symbol, interval, hours, limit, clock, canRead) ==
  get_ohlc(table, symbol, interval, Lookback(clock, hours), clock, <<limit>>, canRead)

\* CorrelationAnalyzer.compute_rolling_correlation, for a window of 1 or
\* more; `fault` is an exception raised inside the try block, which the
\* handler turns into None
compute_rolling_correlation(table, symbol_x, symbol_y, interval, window, lookback, clock, canRead, fault) ==
  LET bars_x == fetch_bars(table, symbol_x, interval, 48, lookback * 2, clock, canRead)
      bars_y == fetch_bars(table, symbol_y, interval, 48, lookback * 2, clock, canRead)
      timestamps_x == CloseByTimestamp(bars_x)
      timestamps_y == CloseByTimestamp(bars_y)
      all_common == Sorted(DOMAIN timestamps_x \cap DOMAIN timestamps_y)
      common_timestamps == LastN(all_common, lookback)
      prices_x == [n \in DOMAIN common_timestamps |-> timestamps_x[common_timestamps[n]]]
      prices_y == [n \in DOMAIN common_timestamps |-> timestamps_y[common_timestamps[n]]]
      rolling == [n \in DOMAIN common_timestamps |->
                    <<common_timestamps[n], rolling_corr(prices_x, prices_y, window, n)>>]
      history == SelectSeq(rolling, LAMBDA e : ~isnan(e[2]))
  IN IF fault THEN except_Exception(None)
     ELSE IF \/ Len(bars_x) < MIN_DATA_POINTS_CORRELATION
             \/ Len(bars_y) < MIN_DATA_POINTS_CORRELATION
       THEN [value |-> None, raised |-> "none"]
     ELSE IF Len(all_common) < window THEN [value |-> None, raised |-> "none"]
     ELSE [value |-> CorrelationResult(symbol_x, symbol_y, interval, window, history,
                                       clock),
           raised |-> "none"]

\* the tables of two symbols' 1m bars
PairTables ==
  {x \cup y : x \in BarTables("BTCUSDT"), y \in BarTables("ETHUSDT")}

CorrelationCalls ==
  [op : {"compute_rolling_correlation"}, symbol_x : {"BTCUSDT"},
   symbol_y : {"ETHUSDT"}, interval : {"1m"}, window : 1..MaxBars,
   lookback : {LOOKBACK}, canRead : BOOLEAN, fault : BOOLEAN,
   ohlc : PairTables, clock : {StatsClock}]

InitCorrelation ==
  /\ InitMain
  /\ intervals = RESAMPLE_INTERVALS
  /\ flight = NoFlight
  /\ InitBucketIdle
  /\ InitEngine
  /\ ret = <<>>
  /\ call \in CorrelationCalls

\* await correlation.compute_rolling_correlation(symbol_x, symbol_y, interval, window)
ComputeRollingCorrelation ==
  /\ call.op = "compute_rolling_correlation"
  /\ ret = <<>>
  /\ ret' = <<compute_rolling_correlation(call.ohlc, call.symbol_x, call.symbol_y,
                                          call.interval, call.window, call.lookback,
                                          call.clock, call.canRead, call.fault)>>
  /\ UNCHANGED <<now, pipeVars, mainVars, intervals, flight, bucketVars, engineVars, steps, call>>

CorrelationNext == ComputeRollingCorrelation

CorrelationSpec == InitCorrelation /\ [][CorrelationNext]_vars

\* compute_correlation_matrix: the symbols that pass `len(bars) < window`
matrix_symbols(table, symbols, interval, window, clock, canRead) ==
  {symbols[n] : n \in
     {m \in DOMAIN symbols :
        Len(fetch_bars(table, symbols[m], interval, 24, window * 2, clock, canRead))
          >= window}}

\* compute_correlation_matrix: the timestamps of the rows of a symbol's
\* column, `sorted(price_data[symbol].keys())[-window:]`; filtering
\* price_data[symbol] by the sorted union of all timestamps removes nothing
matrix_timestamps(table, symbol, interval, window, clock, canRead) ==
  LastN(Sorted(DOMAIN CloseByTimestamp(
                 fetch_bars(table, symbol, interval, 24, window * 2, clock, canRead))),
        window)

\* CorrelationAnalyzer.compute_correlation_matrix, for a window of 1 or
\* more: every symbol with at least `window` bars contributes the closes of
\* its last `window` bars, and df.corr() is the Pearson coefficient of each
\* pair of columns
compute_correlation_matrix(table, symbols, interval, window, clock, canRead, fault) ==
  LET bars(symbol) == fetch_bars(table, symbol, interval, 24, window * 2, clock, canRead)
      price_data == [symbol \in matrix_symbols(table, symbols, interval, window, clock,
                                                canRead) |->
                       CloseByTimestamp(bars(symbol))]
      column(symbol) ==
        LET timestamps == matrix_timestamps(table, symbol, interval, window, clock,
                                            canRead)
        IN [n \in DOMAIN timestamps |-> price_data[symbol][timestamps[n]]]
  IN IF fault THEN except_Exception(None)
     ELSE IF Cardinality(DOMAIN price_data) < 2 THEN [value |-> None, raised |-> "none"]
     ELSE [value |-> [pair \in (DOMAIN price_data) \X (DOMAIN price_data) |->
                        rolling_corr(column(pair[1]), column(pair[2]), window, window)],
           raised |-> "none"]

\* ------------------------------------------------------------- regression
\* config.MIN_DATA_POINTS_REGRESSION, scaled down
MIN_DATA_POINTS_REGRESSION == 2

\* what stats.linregress returned, in fixed point: slope and std_err in
\* tenths, r_squared (r_value ** 2) in hundredths; `flat` tells whether a
\* return series has a standard deviation under 1e-8
Fit(flat, slope, r_squared, std_err) ==
  [flat |-> flat, slope |-> slope, r_squared |-> r_squared, std_err |-> std_err]

abs(x) == IF x < 0 THEN -x ELSE x

\* log(b) - log(a), kept exact as the pair of prices
LogReturn(a, b) == <<a, b>>

\* np.diff(np.log(prices))
log_returns(prices) ==
  [n \in 1..(Len(prices) - 1) |-> LogReturn(prices[n], prices[n + 1])]

\* RegressionResult(...); the residuals are one float per return
RegressionResult(symbol_x, symbol_y, interval, fit, n, clock) ==
  [symbol_x |-> symbol_x, symbol_y |-> symbol_y, interval |-> interval,
   hedge_ratio |-> fit.slope, r_squared |-> fit.r_squared, std_error |-> fit.std_err,
   residuals |-> n, timestamp |-> clock]

\* the three gates let every fit through
sanity_gates_open(fit) == "none"

\* the sanity gates of compute_ols_hedge_ratio: which one suppresses the fit
sanity_gates(fit) ==
  IF abs(fit.slope) > 30 THEN "beta"
  ELSE IF fit.r_squared < 30 THEN "r_squared"
  ELSE IF fit.std_err > abs(fit.slope) THEN "std_err"
  ELSE "none"

\* the aligned timestamps of two bar lists, the last `window` of them
aligned_timestamps(bars_x, bars_y, window) ==
  LastN(Sorted(DOMAIN CloseByTimestamp(bars_x) \cap DOMAIN CloseByTimestamp(bars_y)),
        window)

\* RegressionAnalyzer.compute_ols_hedge_ratio; the stored prices are
\* positive, so every price and every return is finite
compute_ols_hedge_ratio(table, symbol_x, symbol_y, interval, window, fit, clock, canRead, fault) ==
  LET bars_x == fetch_bars(table, symbol_x, interval, 24, window * 2, clock, canRead)
      bars_y == fetch_bars(table, symbol_y, interval, 24, window * 2, clock, canRead)
      all_common == Sorted(DOMAIN CloseByTimestamp(bars_x)
                             \cap DOMAIN CloseByTimestamp(bars_y))
      common_timestamps == aligned_timestamps(bars_x, bars_y, window)
      returns_x == log_returns([n \in DOMAIN common_timestamps |->
                                  CloseByTimestamp(bars_x)[common_timestamps[n]]])
      no_result == [value |-> None, raised |-> "none", fitted |-> FALSE]
  IN IF fault
       THEN [value |-> except_Exception(None).value,
             raised |-> except_Exception(None).raised, fitted |-> FALSE]
     ELSE IF \/ Len(bars_x) < MIN_DATA_POINTS_REGRESSION
             \/ Len(bars_y) < MIN_DATA_POINTS_REGRESSION THEN no_result
     ELSE IF Len(all_common) < MIN_DATA_POINTS_REGRESSION + 1 THEN no_result
     ELSE IF Len(returns_x) < MIN_DATA_POINTS_REGRESSION THEN no_result
     ELSE IF fit.flat THEN no_result
     ELSE IF sanity_gates(fit) # "none"
       THEN [value |-> None, raised |-> "none", fitted |-> TRUE]
     ELSE [value |-> RegressionResult(symbol_x, symbol_y, interval, fit,
                                      Len(returns_x), clock),
           raised |-> "none", fitted |-> TRUE]

\* RegressionAnalyzer.compute_spread: r_Y - hedge_ratio * r_X per pair of
\* aligned returns, kept exact as the two returns and the ratio
compute_spread(table, symbol_x, symbol_y, hedge_ratio, interval, window, clock, canRead, fault) ==
  LET bars_x == fetch_bars(table, symbol_x, interval, 24, window * 2, clock, canRead)
      bars_y == fetch_bars(table, symbol_y, interval, 24, window * 2, clock, canRead)
      common_timestamps == aligned_timestamps(bars_x, bars_y, window)
      returns_x == log_returns([n \in DOMAIN common_timestamps |->
                                  CloseByTimestamp(bars_x)[common_timestamps[n]]])
      returns_y == log_returns([n \in DOMAIN common_timestamps |->
                                  CloseByTimestamp(bars_y)[common_timestamps[n]]])
  IN IF fault THEN except_Exception(<<>>)
     ELSE IF bars_x = <<>> \/ bars_y = <<>> THEN [value |-> <<>>, raised |-> "none"]
     ELSE IF Len(common_timestamps) < 2 THEN [value |-> <<>>, raised |-> "none"]
     ELSE [value |-> [n \in DOMAIN returns_x |->
                        [r_y |-> returns_y[n], hedge_ratio |-> hedge_ratio,
                         r_x |-> returns_x[n]]],
           raised |-> "none"]

\* fits on and around the three gates: |slope| 3.0, r_squared 0.3,
\* std_err against |slope|
Fits ==
  {Fit(flat, slope, r_squared, std_err) :
     flat \in BOOLEAN, slope \in {-50, -31, -30, -5, 5, 30, 31, 50},
     r_squared \in {29, 30, 90}, std_err \in {0, 4, 5, 6, 31}}

\* a fit that passes every gate, and the table with every bar of both symbols
GoodFit == Fit(FALSE, 12, 90, 1)
FullTable == {StoredBar(sym, "1m", t) : sym \in Symbols, t \in BarTimes}

\* ----------------------------------------------------------- stationarity
\* config.MIN_DATA_POINTS_ADF
MIN_DATA_POINTS_ADF == 50

\* ADFTestResult(...); the p-value adfuller returned, in thousandths
ADFTestResult(label, p_value, clock) ==
  [symbol |-> label, p_value |-> p_value, is_stationary |-> p_value < 50,
   timestamp |-> clock]

\* StationarityAnalyzer.adf_test_on_values, on a list without NaN; `fault`
\* is an exception raised inside the try block (adfuller's included)
adf_test_on_values(values, label, p_value, clock, fault) ==
  IF fault THEN except_Exception(None)
  ELSE IF Len(values) < MIN_DATA_POINTS_ADF THEN [value |-> None, raised |-> "none"]
  ELSE [value |-> ADFTestResult(label, p_value, clock), raised |-> "none"]

\* ------------------------------------------------------ the analytics engine
\* A Python string is a sequence of pieces; a piece is "_", ":" or a run of
\* other characters.  The symbols and the interval a request may name:
EngineSymbols == {<<"BTC">>, <<"BTC", "_", "BTC">>}
EngineIntervals == {<<"1m">>}

RECURSIVE Join(_, _)
\* sep.join(strings)
Join(sep, strings) ==
  IF strings = <<>> THEN <<>>
  ELSE IF Len(strings) = 1 THEN strings[1]
  ELSE strings[1] \o sep \o Join(sep, Tail(strings))

\* AnalyticsEngine._get_cache_key: f"{category}:{'_'.join(str(arg) for arg in args)}"
get_cache_key(category, args) == <<category, ":">> \o Join(<<"_">>, args)

\* the validity test with <= : an entry whose age equals the TTL still counts
is_cache_valid_inclusive(times, cache_key, ttl, clock) ==
  IF cache_key \notin DOMAIN times THEN FALSE
  ELSE clock - times[cache_key] <= ttl

\* AnalyticsEngine._is_cache_valid
is_cache_valid(times, cache_key, ttl, clock) ==
  IF cache_key \notin DOMAIN times THEN FALSE
  ELSE clock - times[cache_key] < ttl

\* AnalyticsEngine._get_cached: self._cache.get(cache_key) when valid
get_cached(values, times, cache_key, ttl, clock) ==
  IF ~is_cache_valid(times, cache_key, ttl, clock) THEN None
  ELSE IF cache_key \in DOMAIN values THEN values[cache_key] ELSE None

\* d[key] = value on a dict
SetItem(d, key, value) ==
  [k \in (DOMAIN d) \cup {key} |-> IF k = key THEN value ELSE d[k]]

\* AnalyticsEngine._set_cache
set_cache(values, times, cache_key, value, clock) ==
  [cache |-> SetItem(values, cache_key, value),
   cache_time |-> SetItem(times, cache_key, clock)]

\* the result dict of a computation: what it was computed for, and when
Result(category, args, clock) ==
  [category |-> category, args |-> args, last_update |-> clock]

\* get_symbol_analytics / get_pairs_analytics: the cache lookup, the
\* computation (`available` tells whether the sub-analyzers yield a result)
\* and the store
get_analytics(values, times, category, ttl, args, force_refresh, available, clock) ==
  LET cache_key == get_cache_key(category, args)
      cached == IF force_refresh THEN None
                ELSE get_cached(values, times, cache_key, ttl, clock)
      result == Result(category, args, clock)
  IN IF cached # None
       THEN [cache |-> values, cache_time |-> times, key |-> cache_key,
             computed |-> "no", result |-> cached]
     ELSE IF ~available
       THEN [cache |-> values, cache_time |-> times, key |-> cache_key,
             computed |-> "none", result |-> None]
     ELSE LET stored == set_cache(values, times, cache_key, result, clock)
          IN [cache |-> stored.cache, cache_time |-> stored.cache_time,
              key |-> cache_key, computed |-> "result", result |-> result]

\* a call of the engine
Request(category, ttl, args, force_refresh, available) ==
  LET r == get_analytics(cache, cache_time, category, ttl, args, force_refresh,
                         available, etime)
  IN /\ cache' = r.cache
     /\ cache_time' = r.cache_time
     /\ response' = Response(category, args, force_refresh, r.key, r.computed, r.result)
     /\ UNCHANGED <<now, pipeVars, mainVars, intervals, flight, bucketVars, etime, steps,
                    callVars, loop, refreshed>>

\* AnalyticsEngine.get_symbol_analytics(symbol, interval, force_refresh)
GetSymbolAnalytics ==
  \E symbol \in EngineSymbols, interval \in EngineIntervals,
     force_refresh \in BOOLEAN, available \in BOOLEAN :
    Request("symbol_analytics", CACHE_TTL_STATS, <<symbol, interval>>,
            force_refresh, available)

\* AnalyticsEngine.get_pairs_analytics(symbol_x, symbol_y, interval, force_refresh)
GetPairsAnalytics ==
  \E symbol_x \in EngineSymbols, symbol_y \in EngineSymbols,
     interval \in EngineIntervals, force_refresh \in BOOLEAN, available \in BOOLEAN :
    Request("pairs_analytics", CACHE_TTL_REGRESSION, <<symbol_x, symbol_y, interval>>,
            force_refresh, available)

\* the engine's clock, read at the multiples of the shortest TTL
EngineClock ==
  /\ etime + CACHE_TTL_STATS <= MaxEngineTime
  /\ etime' = etime + CACHE_TTL_STATS
  /\ UNCHANGED <<now, pipeVars, mainVars, intervals, flight, bucketVars, cache, cache_time,
                 response, refreshed, steps, callVars, loop>>

EngineNext == GetSymbolAnalytics \/ GetPairsAnalytics \/ EngineClock

EngineSpec == Init /\ [][EngineNext]_vars

\* the history of forced refreshes after a request for `key` at the engine's
\* present time
Refreshed(key, force_refresh) ==
  IF force_refresh THEN SetItem(refreshed, key, etime) ELSE refreshed

\* a call of the engine, with the time of a forced refresh recorded
TrackedRequest(category, ttl, args, force_refresh, available) ==
  LET r == get_analytics(cache, cache_time, category, ttl, args, force_refresh,
                         available, etime)
  IN /\ cache' = r.cache
     /\ cache_time' = r.cache_time
     /\ response' = Response(category, args, force_refresh, r.key, r.computed, r.result)
     /\ refreshed' = Refreshed(r.key, force_refresh)
     /\ UNCHANGED <<now, pipeVars, mainVars, intervals, flight, bucketVars, etime, steps,
                    callVars, loop>>

\* get_symbol_analytics("BTC", "1m", force_refresh), as the API and the
\* refresh loop call it
RefreshSymbolAnalytics ==
  \E force_refresh \in BOOLEAN, available \in BOOLEAN :
    TrackedRequest("symbol_analytics", CACHE_TTL_STATS, <<<<"BTC">>, <<"1m">>>>,
                   force_refresh, available)

\* get_pairs_analytics("BTC", "ETH", "1m", force_refresh)
RefreshPairsAnalytics ==
  \E force_refresh \in BOOLEAN, available \in BOOLEAN :
    TrackedRequest("pairs_analytics", CACHE_TTL_REGRESSION,
                   <<<<"BTC">>, <<"ETH">>, <<"1m">>>>, force_refresh, available)

\* forced and plain requests for one symbol and one pair, as time passes
RefreshNext == RefreshSymbolAnalytics \/ RefreshPairsAnalytics \/ EngineClock

RefreshSpec == Init /\ [][RefreshNext]_vars

\* ------------------------------------------------------ the refresh loop
\* config.ANALYTICS_UPDATE_INTERVAL
ANALYTICS_UPDATE_INTERVAL == 5

\* what a cycle refreshes: config.SYMBOLS, then config.DEFAULT_SYMBOL_PAIRS
Targets ==
  <<[category |-> "symbol_analytics", ttl |-> CACHE_TTL_STATS,
     args |-> <<<<"btcusdt">>, <<"1m">>>>],
    [category |-> "symbol_analytics", ttl |-> CACHE_TTL_STATS,
     args |-> <<<<"ethusdt">>, <<"1m">>>>],
    [category |-> "pairs_analytics", ttl |-> CACHE_TTL_REGRESSION,
     args |-> <<<<"BTCUSDT">>, <<"ETHUSDT">>, <<"1m">>>>]>>

\* how a cycle may end: update_all_analytics returns after the last target,
\* an exception is caught by its own handler, or one gets past that handler
CycleOutcomes ==
  {"returned", "raised in update_all_analytics", "raised past update_all_analytics"}

\* the loop without its handlers: the exception ends the task
after_cycle_unhandled(outcome) ==
  IF outcome = "returned" THEN "sleep" ELSE "terminated"

\* update_analytics_loop after update_all_analytics: both handlers only log,
\* and `await asyncio.sleep(interval_seconds)` follows whatever happened
after_cycle(outcome) == "sleep"

\* asyncio.create_task(analytics_update_task(db)): the loop starts with
\* `await asyncio.sleep(60)`
LoopStart ==
  /\ loop.pc = "none"
  /\ loop' = Loop("warmup", 0, 0, "none")
  /\ UNCHANGED <<now, pipeVars, mainVars, intervals, flight, bucketVars, etime, cache,
                 cache_time, response, refreshed, steps, callVars>>

\* the warm-up is over: the first cycle starts (the engine's time is counted
\* from here)
WarmupDone ==
  /\ loop.pc = "warmup"
  /\ loop' = Loop("cycle", 1, 1, "none")
  /\ UNCHANGED <<now, pipeVars, mainVars, intervals, flight, bucketVars, etime, cache,
                 cache_time, response, refreshed, steps, callVars>>

\* update_all_analytics: the next get_symbol_analytics / get_pairs_analytics
\* call, with force_refresh=True
UpdateTarget ==
  /\ loop.pc = "cycle"
  /\ loop.target <= Len(Targets)
  /\ \E available \in BOOLEAN :
       LET target == Targets[loop.target]
           r == get_analytics(cache, cache_time, target.category, target.ttl,
                              target.args, TRUE, available, etime)
       IN /\ cache' = r.cache
          /\ cache_time' = r.cache_time
          /\ response' = Response(target.category, target.args, TRUE, r.key,
                                  r.computed, r.result)
  /\ loop' = [loop EXCEPT !.target = @ + 1]
  /\ UNCHANGED <<now, pipeVars, mainVars, intervals, flight, bucketVars, etime, steps, callVars,
                 refreshed>>

\* the cycle ends: after the last target, or at any point with an exception
CycleEnd ==
  /\ loop.pc = "cycle"
  /\ \E outcome \in CycleOutcomes :
       /\ outcome = "returned" => loop.target > Len(Targets)
       /\ loop' = Loop(after_cycle(outcome), 0, loop.cycles, outcome)
  /\ UNCHANGED <<now, pipeVars, mainVars, intervals, flight, bucketVars, etime, cache,
                 cache_time, response, refreshed, steps, callVars>>

\* asyncio.sleep(interval_seconds) is over: the next cycle starts
SleepDone ==
  /\ loop.pc = "sleep"
  /\ etime + ANALYTICS_UPDATE_INTERVAL <= MaxEngineTime
  /\ etime' = etime + ANALYTICS_UPDATE_INTERVAL
  /\ loop' = Loop("cycle", 1, loop.cycles + 1, loop.previous)
  /\ UNCHANGED <<now, pipeVars, mainVars, intervals, flight, bucketVars, cache, cache_time,
                 response, refreshed, steps, callVars>>

\* analytics_task.cancel(): CancelledError is no Exception, so neither
\* handler catches it and the task ends
LoopCancel ==
  /\ loop.pc \in {"warmup", "cycle", "sleep"}
  /\ loop' = [loop EXCEPT !.pc = "cancelled"]
  /\ UNCHANGED <<now, pipeVars, mainVars, intervals, flight, bucketVars, etime, cache,
                 cache_time, response, refreshed, steps, callVars>>

LoopNext ==
  LoopStart \/ WarmupDone \/ UpdateTarget \/ CycleEnd \/ SleepDone \/ LoopCancel

LoopSpec == Init /\ [][LoopNext]_vars

\* ------------------------------------------------------ the pairs pipeline
\* config.DEFAULT_ROLLING_WINDOW, scaled down
DEFAULT_ROLLING_WINDOW == 4

\* a symbol without "_" as the pieces of its string
Pieces(symbol) == <<symbol>>

\* datetime.now() of the analyzers at the engine's time
EngineDatetime(clock) == StatsClock + clock * 1000

\* the spread is used whatever its length
spread_sufficient_any(spread) == TRUE

\* `if not spread or len(spread) < 20` does not hold
spread_sufficient(spread) == spread # <<>> /\ Len(spread) >= 20

PairsSteps ==
  <<"compute_ols_hedge_ratio", "compute_spread", "compute_zscore",
    "adf_test_on_values", "compute_rolling_correlation">>

\* get_pairs_analytics once the cache was looked up and the sub-analyzers
\* have answered: the early returns, the bundle and its caching.  steps: the
\* sub-analyzer calls made
pairs_bundle(values, times, cache_key, cached, regression_result, spread, z_scores, adf_result, corr_result, clock) ==
  LET result == [regression |-> regression_result, spread |-> spread,
                 z_score |-> z_scores, adf_test |-> adf_result,
                 correlation |-> corr_result, last_update |-> clock]
      stored == set_cache(values, times, cache_key, result, clock)
  IN IF cached # None
       THEN [cache |-> values, cache_time |-> times, key |-> cache_key,
             computed |-> "no", result |-> cached, steps |-> <<>>]
     ELSE IF regression_result = None
       THEN [cache |-> values, cache_time |-> times, key |-> cache_key,
             computed |-> "none", result |-> None, steps |-> SubSeq(PairsSteps, 1, 1)]
     ELSE IF ~spread_sufficient(spread)
       THEN [cache |-> values, cache_time |-> times, key |-> cache_key,
             computed |-> "none", result |-> None, steps |-> SubSeq(PairsSteps, 1, 2)]
     ELSE [cache |-> stored.cache, cache_time |-> stored.cache_time, key |-> cache_key,
           computed |-> "result", result |-> result, steps |-> PairsSteps]

\* the cache key of a pairs request
pairs_cache_key(symbol_x, symbol_y, interval) ==
  get_cache_key("pairs_analytics",
                <<Pieces(symbol_x), Pieces(symbol_y), Pieces(interval)>>)

\* AnalyticsEngine.get_pairs_analytics.  env holds what the environment
\* decides: the fit linregress finds, the list compute_spread returned (its
\* floats given as integers), adfuller's p-value or failure, and what
\* compute_rolling_correlation returned
get_pairs_analytics(values, times, symbol_x, symbol_y, interval, force_refresh, table, env, clock) ==
  pairs_bundle(values, times, pairs_cache_key(symbol_x, symbol_y, interval),
               IF force_refresh THEN None
               ELSE get_cached(values, times,
                               pairs_cache_key(symbol_x, symbol_y, interval),
                               CACHE_TTL_REGRESSION, clock),
               compute_ols_hedge_ratio(table, symbol_x, symbol_y, interval,
                                       DEFAULT_ROLLING_WINDOW, env.fit,
                                       EngineDatetime(clock), TRUE, FALSE).value,
               env.spread,
               compute_zscore(env.spread, 20),
               adf_test_on_values(env.spread, <<symbol_x, symbol_y>>, env.p_value,
                                  EngineDatetime(clock), env.adf_fault).value,
               env.correlation,
               clock)

\* the calls of compute_ols_hedge_ratio: every fit on the full table, and
\* the passing fit on every table
RegressionCalls ==
  [op : {"compute_ols_hedge_ratio"}, symbol_x : {"BTCUSDT"}, symbol_y : {"ETHUSDT"},
   interval : {"1m"}, window : {MaxBars}, fit : Fits, canRead : {TRUE},
   fault : BOOLEAN, ohlc : {FullTable}, clock : {StatsClock}]
  \cup
  [op : {"compute_ols_hedge_ratio"}, symbol_x : {"BTCUSDT"}, symbol_y : {"ETHUSDT"},
   interval : {"1m"}, window : 1..MaxBars, fit : {GoodFit}, canRead : BOOLEAN,
   fault : {FALSE}, ohlc : PairTables, clock : {StatsClock}]

\* spreads of no, too few, just enough and many points
SpreadSeries == {[i \in 1..n |-> (i * i) % 7] : n \in {0, 19, 20, 50}}

\* what compute_rolling_correlation may have returned
CorrelationOutcomes ==
  {None, CorrelationResult("BTCUSDT", "ETHUSDT", "1m", 60, <<>>, StatsClock)}

\* a fit that passes, and one per gate: |beta| = 5, R^2 = 0.29, and a
\* standard error above |beta|
PairsFits ==
  {GoodFit, Fit(FALSE, 50, 90, 1), Fit(FALSE, -50, 90, 1), Fit(FALSE, 12, 29, 1),
   Fit(FALSE, 5, 90, 6)}

PairsEnvs ==
  [fit : PairsFits, spread : SpreadSeries, p_value : {10, 50}, adf_fault : BOOLEAN,
   correlation : CorrelationOutcomes]

\* the calls of get_pairs_analytics
PairsCalls ==
  [op : {"get_pairs_analytics"}, symbol_x : {"BTCUSDT"}, symbol_y : {"ETHUSDT"},
   interval : {"1m"}, force_refresh : BOOLEAN, env : PairsEnvs, ohlc : {FullTable}]

\* the bundle an earlier request stored in the cache
EarlierEnv ==
  [fit |-> GoodFit, spread |-> [i \in 1..20 |-> i % 3], p_value |-> 10,
   adf_fault |-> FALSE, correlation |-> None]
EarlierRequest ==
  get_pairs_analytics([k \in {} |-> None], [k \in {} |-> 0], "BTCUSDT", "ETHUSDT",
                      "1m", TRUE, FullTable, EarlierEnv, 0)

\* a regression call on a new engine, or a pairs request to an engine whose
\* cache is empty or holds the bundle stored at time 0, at any engine time
InitPairs ==
  /\ InitMain
  /\ intervals = RESAMPLE_INTERVALS
  /\ flight = NoFlight
  /\ InitBucketIdle
  /\ response = Response("none", <<>>, FALSE, <<>>, "no", None)
  /\ refreshed = [k \in {} |-> 0]
  /\ steps = <<>>
  /\ loop = Loop("none", 0, 0, "none")
  /\ ret = <<>>
  /\ \/ /\ call \in RegressionCalls
        /\ etime = 0
        /\ cache = [k \in {} |-> None]
        /\ cache_time = [k \in {} |-> 0]
     \/ /\ call \in PairsCalls
        /\ etime \in {0, CACHE_TTL_STATS, CACHE_TTL_REGRESSION}
        /\ \/ /\ cache = [k \in {} |-> None]
              /\ cache_time = [k \in {} |-> 0]
           \/ \E earlier \in {EarlierRequest} :
                /\ cache = earlier.cache
                /\ cache_time = earlier.cache_time

\* await regression.compute_ols_hedge_ratio(symbol_x, symbol_y, interval, window)
ComputeOlsHedgeRatio ==
  /\ call.op = "compute_ols_hedge_ratio"
  /\ ret = <<>>
  /\ ret' = <<compute_ols_hedge_ratio(call.ohlc, call.symbol_x, call.symbol_y,
                                      call.interval, call.window, call.fit,
                                      call.clock, call.canRead, call.fault)>>
  /\ UNCHANGED <<now, pipeVars, mainVars, intervals, flight, bucketVars, engineVars, steps, call>>

\* await engine.get_pairs_analytics(symbol_x, symbol_y, interval, force_refresh)
PairsRequest ==
  /\ call.op = "get_pairs_analytics"
  /\ ret = <<>>
  /\ LET r == get_pairs_analytics(cache, cache_time, call.symbol_x, call.symbol_y,
                                  call.interval, call.force_refresh, call.ohlc,
                                  call.env, etime)
     IN /\ cache' = r.cache
        /\ cache_time' = r.cache_time
        /\ steps' = r.steps
        /\ response' = Response("pairs_analytics",
                                <<Pieces(call.symbol_x), Pieces(call.symbol_y),
                                  Pieces(call.interval)>>,
                                call.force_refresh, r.key, r.computed, r.result)
        /\ ret' = <<r.result>>
  /\ UNCHANGED <<now, pipeVars, mainVars, intervals, flight, bucketVars, etime, call, loop,
                 refreshed>>

PairsNext == ComputeOlsHedgeRatio \/ PairsRequest

PairsSpec == InitPairs /\ [][PairsNext]_vars

\* ------------------------------------------------- the sub-analyzers
\* every sub-analyzer operation, under any stored bars, a Storage whose
\* queries may fail, and a body that may raise
SpreadCalls ==
  [op : {"compute_spread"}, symbol_x : {"BTCUSDT"}, symbol_y : {"ETHUSDT"},
   hedge_ratio : {GoodFit.slope}, interval : {"1m"}, window : 1..MaxBars,
   canRead : BOOLEAN, fault : BOOLEAN, ohlc : PairTables, clock : {StatsClock}]

AdfCalls ==
  [op : {"adf_test_on_values"}, values : SpreadSeries, p_value : {10, 50},
   fault : BOOLEAN, clock : {StatsClock}]

MatrixCalls ==
  [op : {"compute_correlation_matrix"}, symbols : {<<"BTCUSDT", "ETHUSDT">>},
   interval : {"1m"}, window : 1..MaxBars, canRead : BOOLEAN, fault : BOOLEAN,
   ohlc : PairTables, clock : {StatsClock}]

InitAnalyzers ==
  /\ InitMain
  /\ intervals = RESAMPLE_INTERVALS
  /\ flight = NoFlight
  /\ InitBucketIdle
  /\ InitEngine
  /\ ret = <<>>
  /\ call \in StatsCalls \cup RegressionCalls \cup SpreadCalls \cup AdfCalls
                \cup CorrelationCalls \cup MatrixCalls

\* await regression.compute_spread(symbol_x, symbol_y, hedge_ratio, interval, window)
ComputeSpread ==
  /\ call.op = "compute_spread"
  /\ ret = <<>>
  /\ ret' = <<compute_spread(call.ohlc, call.symbol_x, call.symbol_y, call.hedge_ratio,
                             call.interval, call.window, call.clock, call.canRead,
                             call.fault)>>
  /\ UNCHANGED <<now, pipeVars, mainVars, intervals, flight, bucketVars, engineVars, steps, call>>

\* await stationarity.adf_test_on_values(values, label)
AdfTestOnValues ==
  /\ call.op = "adf_test_on_values"
  /\ ret = <<>>
  /\ ret' = <<adf_test_on_values(call.values, "spread", call.p_value, call.clock,
                                 call.fault)>>
  /\ UNCHANGED <<now, pipeVars, mainVars, intervals, flight, bucketVars, engineVars, steps, call>>

\* await correlation.compute_correlation_matrix(symbols, interval, window)
ComputeCorrelationMatrix ==
  /\ call.op = "compute_correlation_matrix"
  /\ ret = <<>>
  /\ ret' = <<compute_correlation_matrix(call.ohlc, call.symbols, call.interval,
                                         call.window, call.clock, call.canRead,
                                         call.fault)>>
  /\ UNCHANGED <<now, pipeVars, mainVars, intervals, flight, bucketVars, engineVars, steps, call>>

AnalyzersNext ==
  \/ ComputePriceStats \/ ComputeVolumeStats \/ ComputeOlsHedgeRatio \/ ComputeSpread
  \/ AdfTestOnValues \/ ComputeRollingCorrelation \/ ComputeCorrelationMatrix

AnalyzersSpec == InitAnalyzers /\ [][AnalyzersNext]_vars

\* -------------------------------------------------------------- the Storage
\* batching buffer, under any caller and clock; the batch write may fail
StoreTick ==
  /\ \E tick \in Feed, failing \in SUBSET {"ticks"} : ProcessTick(tick, failing)
  /\ UNCHANGED <<now, mainVars, auxVars>>

StoreClose ==
  /\ \E failing \in SUBSET {"ticks"} : Close(failing)
  /\ UNCHANGED <<now, mainVars, auxVars>>

Tick ==
  /\ ClockTick
  /\ UNCHANGED <<pipeVars, mainVars, auxVars>>

StorageNext == StoreTick \/ StoreClose \/ Tick

StorageSpec == Init /\ [][StorageNext]_vars

\* ------------------------------------------------------ the ingestion client
\* asyncio.Queue(maxsize).put_nowait(item): QueueFull leaves the queue as it is
put_nowait_evicting(queue, item, maxsize) ==
  IF Len(queue) >= maxsize
    THEN [queue |-> Append(Tail(queue), item), full |-> FALSE]
    ELSE [queue |-> Append(queue, item), full |-> FALSE]

put_nowait(queue, item, maxsize) ==
  IF Len(queue) >= maxsize
    THEN [queue |-> queue, full |-> TRUE]
    ELSE [queue |-> Append(queue, item), full |-> FALSE]

\* the messages a stream delivers: trade events of the stream's symbol, events
\* of another type, and text that json.loads or the field lookups reject
Message(valid, e, trade) == [valid |-> valid, e |-> e, trade |-> trade]

Messages(symbol) ==
  {Message(TRUE, "trade", t) : t \in {u \in Feed : u.symbol = StreamSymbol[symbol]}}
    \cup {Message(TRUE, "24hrTicker", None), Message(FALSE, "trade", None)}

\* BinanceWebSocketClient._handle_message: the queue and tick count of the
\* symbol after the message, and what was enqueued / dropped
handle_message_counting_first(queue, count, message) ==
  IF ~message.valid \/ message.e # "trade"
    THEN [queue |-> queue, count |-> count, put |-> <<>>, warned |-> 0]
    ELSE LET r == put_nowait(queue, message.trade, BUFFER_SIZE)
         IN [queue |-> r.queue, count |-> count + 1,
             put |-> IF r.full THEN <<>> ELSE <<message.trade>>,
             warned |-> IF r.full THEN 1 ELSE 0]

handle_message(queue, count, message) ==
  IF ~message.valid \/ message.e # "trade"
    THEN [queue |-> queue, count |-> count, put |-> <<>>, warned |-> 0]
    ELSE LET r == put_nowait(queue, message.trade, BUFFER_SIZE)
         IN IF r.full
              THEN [queue |-> r.queue, count |-> count, put |-> <<>>, warned |-> 1]
              ELSE [queue |-> r.queue, count |-> count + 1,
                    put |-> <<message.trade>>, warned |-> 0]

\* BinanceWebSocketClient.get_next_tick: the head of the queue, or None when
\* the wait times out on an empty queue
get_next_tick_newest(queue) ==
  IF queue = <<>> THEN [queue |-> queue, tick |-> None]
  ELSE [queue |-> SubSeq(queue, 1, Len(queue) - 1), tick |-> queue[Len(queue)]]

get_next_tick(queue) ==
  IF queue = <<>> THEN [queue |-> queue, tick |-> None]
  ELSE [queue |-> Tail(queue), tick |-> Head(queue)]


\* what ends a connection attempt or an open connection with an exception:
\* a websockets.WebSocketException (handshake refused, connection closed
\* abnormally) or any other Exception (OSError, a timeout)
ConnectionErrors == {"WebSocketException", "Exception"}

histVars == <<enqueued, delivered, dropped>>

\* BinanceWebSocketClient.start() and the create_task calls of main
Start ==
  /\ pc = "start"
  /\ running' = TRUE
  /\ tasks' = [s \in ClientSymbolSet |-> "connecting"]
  /\ retry_delay' = [s \in ClientSymbolSet |-> RECONNECT_DELAY_BASE]
  /\ resample_task' = "running"
  /\ pc' = "wait"
  /\ UNCHANGED <<now, pipeVars, queues, tick_counts, received, position,
                 shutdown_log, histVars, auxVars>>

\* _connect_and_consume: websockets.connect succeeds
Connect ==
  /\ running
  /\ \E symbol \in ClientSymbolSet :
       /\ tasks[symbol] = "connecting"
       /\ tasks' = [tasks EXCEPT ![symbol] = "connected"]
       /\ retry_delay' = [retry_delay EXCEPT ![symbol] = RECONNECT_DELAY_BASE]
  /\ UNCHANGED <<now, pipeVars, pc, running, queues, tick_counts, received,
                 resample_task, position, shutdown_log, histVars, auxVars>>

\* the connection loop with a handler for WebSocketException alone: any
\* other exception leaves _connect_and_consume
except_websocket_only(isRunning, exc) ==
  IF exc = "WebSocketException" /\ isRunning THEN "sleep_ws" ELSE "done"

\* the two handlers of _connect_and_consume: `if self.running:` sleep
\* retry_delay, `else: break`
except_connection(isRunning, exc) ==
  IF ~isRunning THEN "done"
  ELSE IF exc = "WebSocketException" THEN "sleep_ws"
  ELSE "sleep_exc"

\* _connect_and_consume: connect() or the message loop raises; the task
\* sleeps retry_delay when the client is running, and leaves the loop otherwise
ConnectionLost ==
  /\ \E symbol \in ClientSymbolSet, exc \in ConnectionErrors :
       /\ tasks[symbol] \in {"connecting", "connected"}
       /\ tasks' = [tasks EXCEPT ![symbol] = except_connection(running, exc)]
  /\ UNCHANGED <<now, pipeVars, pc, running, queues, tick_counts, received,
                 resample_task, position, shutdown_log, retry_delay, histVars,
                 auxVars>>

\* _connect_and_consume: the server closes the connection normally, the
\* `async for` ends and the while loop connects again
StreamEnd ==
  /\ \E symbol \in ClientSymbolSet :
       /\ tasks[symbol] = "connected"
       /\ tasks' = [tasks EXCEPT ![symbol] = IF running THEN "connecting" ELSE "done"]
  /\ UNCHANGED <<now, pipeVars, pc, running, queues, tick_counts, received,
                 resample_task, position, shutdown_log, retry_delay, histVars,
                 auxVars>>

\* _connect_and_consume: asyncio.sleep(retry_delay) returns; the handler of
\* WebSocketException doubles the delay up to RECONNECT_MAX_DELAY, the handler
\* of Exception leaves it; the while loop then tests self.running
Wake ==
  /\ \E symbol \in ClientSymbolSet :
       /\ tasks[symbol] \in {"sleep_ws", "sleep_exc"}
       /\ retry_delay' = [retry_delay EXCEPT ![symbol] =
                            IF tasks[symbol] = "sleep_ws"
                              THEN Min(@ * 2, RECONNECT_MAX_DELAY) ELSE @]
       /\ tasks' = [tasks EXCEPT ![symbol] = IF running THEN "connecting" ELSE "done"]
  /\ UNCHANGED <<now, pipeVars, pc, running, queues, tick_counts, received,
                 resample_task, position, shutdown_log, histVars, auxVars>>

\* _connect_and_consume: one message of the stream, passed to _handle_message
HandleMessage ==
  /\ running
  /\ received < MaxTicks
  /\ \E symbol \in ClientSymbolSet :
       /\ tasks[symbol] = "connected"
       /\ \E message \in Messages(symbol) :
            LET r == handle_message(queues[symbol], tick_counts[symbol], message)
            IN /\ queues' = [queues EXCEPT ![symbol] = r.queue]
               /\ tick_counts' = [tick_counts EXCEPT ![symbol] = r.count]
               /\ enqueued' = [enqueued EXCEPT ![symbol] = @ \o r.put]
               /\ dropped' = [dropped EXCEPT ![symbol] = @ + r.warned]
  /\ received' = received + 1
  /\ UNCHANGED <<now, pipeVars, pc, running, tasks, resample_task, position,
                 shutdown_log, retry_delay, delivered, auxVars>>

\* a consumer of the client calls get_next_tick(symbol)
GetNextTick ==
  /\ \E symbol \in ClientSymbolSet :
       LET r == get_next_tick(queues[symbol])
       IN /\ r.tick # None
          /\ queues' = [queues EXCEPT ![symbol] = r.queue]
          /\ delivered' = [delivered EXCEPT ![symbol] = Append(@, r.tick)]
  /\ UNCHANGED <<now, pipeVars, pc, running, tasks, tick_counts, received,
                 resample_task, position, shutdown_log, retry_delay, enqueued, dropped,
                 auxVars>>

\* BinanceWebSocketClient.stop(): running = False and task.cancel() for each
\* task; a cancelled task gets CancelledError at the await it is suspended in
StopCancel ==
  /\ pc = "stop"
  /\ running' = FALSE
  /\ tasks' = [s \in ClientSymbolSet |->
                 IF tasks[s] \in {"none", "done"} THEN tasks[s] ELSE "cancelling"]
  /\ pc' = "stopping"
  /\ UNCHANGED <<now, pipeVars, queues, tick_counts, received, resample_task,
                 position, shutdown_log, retry_delay, histVars, auxVars>>

\* CancelledError leaves _connect_and_consume: the task is done
TaskExit ==
  /\ \E symbol \in ClientSymbolSet :
       /\ tasks[symbol] = "cancelling"
       /\ tasks' = [tasks EXCEPT ![symbol] = "done"]
  /\ UNCHANGED <<now, pipeVars, pc, running, queues, tick_counts, received,
                 resample_task, position, shutdown_log, retry_delay, histVars,
                 auxVars>>

\* asyncio.gather(*tasks, return_exceptions=True) returns once every task is done
gather_without_waiting(states) == TRUE

gather(states) == \A s \in DOMAIN states : states[s] \in {"none", "done"}

\* BinanceWebSocketClient.stop() returns to main
ClientStop ==
  /\ pc = "stopping"
  /\ gather(tasks)
  /\ shutdown_log' = Append(shutdown_log, "stop_ingestion")
  /\ pc' = "close"
  /\ UNCHANGED <<now, pipeVars, clientVars, resample_task, position, auxVars>>

\* signal_handler: shutdown_event.set() wakes main
Signal ==
  /\ pc = "wait"
  /\ pc' = "cancel"
  /\ UNCHANGED <<now, pipeVars, clientVars, resample_task, position, shutdown_log,
                 auxVars>>

\* main: resample_task.cancel() (with the analytics and status tasks) and
\* the gather that waits for them
CancelTasks ==
  /\ pc = "cancel"
  /\ resample_task' = "cancelled"
  /\ shutdown_log' = Append(shutdown_log, "cancel_resample")
  /\ pc' = "stop"
  /\ UNCHANGED <<now, pipeVars, clientVars, position, auxVars>>

\* the client over streams that connect and stay connected, under any
\* consumer, started and stopped as main does
ClientNext ==
  \/ Start \/ Connect \/ HandleMessage \/ GetNextTick
  \/ Signal \/ CancelTasks \/ StopCancel \/ TaskExit \/ ClientStop

ClientSpec == Init /\ [][ClientNext]_vars

\* the connection loops over streams that fail, end and deliver messages
ReconnectNext ==
  \/ Start \/ Connect \/ ConnectionLost \/ StreamEnd \/ Wake \/ HandleMessage
  \/ Signal \/ CancelTasks \/ StopCancel \/ TaskExit \/ ClientStop

ReconnectSpec == Init /\ [][ReconnectNext]_vars

\* the same, with the event loop's timer: asyncio.sleep(retry_delay) of each
\* task returns after at most RECONNECT_MAX_DELAY seconds
ReconnectLiveSpec ==
  /\ ReconnectSpec
  /\ \A symbol \in ClientSymbolSet : WF_vars(Wake /\ tasks'[symbol] # tasks[symbol])

\* ------------------------------------------------------------------- main
\* one turn of the loop of resample_and_persist: get_next_tick for the symbol
\* at `position`, process_tick when a trade was queued
ResampleStep ==
  /\ resample_task = "running"
  /\ LET symbol == ClientSymbols[position]
         r == get_next_tick(queues[symbol])
     IN IF r.tick # None
          THEN /\ queues' = [queues EXCEPT ![symbol] = r.queue]
               /\ delivered' = [delivered EXCEPT ![symbol] = Append(@, r.tick)]
               /\ \E failing \in SUBSET WriteKinds : ProcessTick(r.tick, failing)
          ELSE UNCHANGED <<queues, delivered, pipeVars>>
  /\ position' = (position % Len(ClientSymbols)) + 1
  /\ UNCHANGED <<now, pc, running, tasks, tick_counts, received, resample_task,
                 shutdown_log, retry_delay, enqueued, dropped, auxVars>>

\* main, finally: DatabaseManager.close(): _flush_ticks, then conn.close()
DbClose ==
  /\ pc = "close"
  /\ \E failing \in SUBSET {"ticks"} : Close(failing)
  /\ shutdown_log' = shutdown_log \o <<"flush_storage", "close_storage">>
  /\ pc' = "done"
  /\ UNCHANGED <<now, clientVars, resample_task, position, auxVars>>

\* main over streams that connect and stay connected, the wall clock held
PipelineNext ==
  \/ Start \/ Connect \/ HandleMessage \/ ResampleStep
  \/ Signal \/ CancelTasks \/ StopCancel \/ TaskExit \/ ClientStop \/ DbClose

PipelineSpec == Init /\ [][PipelineNext]_vars

\* main over streams that connect and stay connected, under any clock
MainNext == PipelineNext \/ Tick

MainSpec == Init /\ [][MainNext]_vars

\* ------------------------------------------------ a flush between its awaits
\* insert_tick's test after the append: buffer_full or timeout_reached
flush_due(buffer, lastFlushAt, clock) ==
  Len(buffer) >= TICK_BATCH_SIZE \/ clock - lastFlushAt >= TICK_BATCH_TIMEOUT

\* resample_and_persist awaits process_tick, which awaits insert_tick, which
\* awaits _flush_ticks: the loop takes its next trade only once the flush it
\* started has returned
drain_resumes(phase) == phase = "idle"

\* process_tick after insert_tick has returned: the loop over the intervals
Resample(tick) ==
  LET rs == process_intervals(intervals, RState(buffers, ohlc, {}, {}), tick, 1,
                              CanWrite("bars", {}))
  IN /\ buffers' = rs.buffers
     /\ ohlc' = rs.ohlc
     /\ raised' = process_tick_raises(rs.errors)

\* _flush_ticks has returned to its caller: process_tick goes on with the
\* intervals of its trade; close() closes the connection and main is done
Resume(caller, pending) ==
  IF caller = "close"
    THEN /\ conn' = "closed"
         /\ pc' = "done"
         /\ shutdown_log' = shutdown_log \o <<"flush_storage", "close_storage">>
         /\ UNCHANGED <<buffers, ohlc, raised>>
    ELSE /\ Resample(pending[1])
         /\ UNCHANGED <<conn, pc, shutdown_log>>

\* one turn of the loop of resample_and_persist, up to the first await of the
\* flush that insert_tick starts, or to the end of process_tick when it
\* starts none
DrainStep ==
  /\ resample_task = "running"
  /\ drain_resumes(flight.phase)
  /\ LET symbol == ClientSymbols[position]
         r == get_next_tick(queues[symbol])
     IN IF r.tick # None
          THEN LET appended == Append(tick_buffer, r.tick)
               IN /\ queues' = [queues EXCEPT ![symbol] = r.queue]
                  /\ delivered' = [delivered EXCEPT ![symbol] = Append(@, r.tick)]
                  /\ processed' = Append(processed, r.tick)
                  /\ tick_buffer' = appended
                  /\ IF flush_due(appended, last_flush, now)
                       THEN /\ flight' = Flight("executemany", batch_data(appended),
                                                "insert_tick", <<r.tick>>)
                            /\ last' = Last("insert_tick", "executemany", {}, {})
                            /\ UNCHANGED <<buffers, ohlc, raised>>
                       ELSE /\ last' = Last("process_tick", "none", {}, {})
                            /\ Resample(r.tick)
                            /\ UNCHANGED flight
                  /\ UNCHANGED <<last_flush, conn, ticks, unwritten, faults>>
          ELSE UNCHANGED <<queues, delivered, pipeVars, flight>>
  /\ position' = (position % Len(ClientSymbols)) + 1
  /\ UNCHANGED <<now, pc, running, tasks, tick_counts, received, resample_task,
                 shutdown_log, retry_delay, enqueued, dropped, intervals, bucketVars,
                 engineVars, steps, callVars>>

\* `await self.conn.executemany(...)` returns: the rows of the batch are
\* written and the flush goes on to the commit; or it raises, the handler
\* logs, and _flush_ticks returns with the buffer as it is
ExecutemanyReturns ==
  /\ flight.phase = "executemany"
  /\ \E written \in BOOLEAN :
       IF written
         THEN /\ ticks' = ticks \o flight.batch
              /\ flight' = [flight EXCEPT !.phase = "commit"]
              /\ last' = Last(flight.caller, "commit", {}, {})
              /\ UNCHANGED <<faults, unwritten, buffers, ohlc, raised, conn, pc,
                             shutdown_log>>
         ELSE /\ faults < MaxFaults
              /\ faults' = faults + 1
              /\ unwritten' = tick_buffer
              /\ flight' = NoFlight
              /\ last' = Last(flight.caller, "failed", {}, {})
              /\ Resume(flight.caller, flight.pending)
              /\ UNCHANGED ticks
  /\ UNCHANGED <<now, tick_buffer, last_flush, processed, running, tasks, queues,
                 tick_counts, received, resample_task, position, retry_delay, histVars,
                 intervals, bucketVars, engineVars, steps, callVars>>

\* `await self.conn.commit()` returns: tick_buffer.clear(), last_flush =
\* datetime.now(), and _flush_ticks returns to its caller
CommitReturns ==
  /\ flight.phase = "commit"
  /\ tick_buffer' = <<>>
  /\ last_flush' = now
  /\ unwritten' = <<>>
  /\ flight' = NoFlight
  /\ last' = Last(flight.caller, "ok", {}, {})
  /\ Resume(flight.caller, flight.pending)
  /\ UNCHANGED <<now, ticks, processed, faults, running, tasks, queues, tick_counts,
                 received, resample_task, position, retry_delay, histVars, intervals,
                 bucketVars, engineVars, steps, callVars>>

\* main: resample_task.cancel() and the gather. A task suspended in an await
\* of _flush_ticks gets CancelledError there; `except Exception` does not
\* catch it, so it leaves _flush_ticks before tick_buffer.clear(). A
\* statement the connection had not answered yet may or may not have run.
CancelSuspended ==
  /\ pc = "cancel"
  /\ resample_task' = "cancelled"
  /\ shutdown_log' = Append(shutdown_log, "cancel_resample")
  /\ pc' = "stop"
  /\ IF flight.phase = "idle"
       THEN UNCHANGED <<flight, ticks, last>>
       ELSE /\ flight' = NoFlight
            /\ last' = Last("cancel", flight.phase, {}, {})
            /\ ticks' \in IF flight.phase = "executemany"
                            THEN {ticks, ticks \o flight.batch}
                            ELSE {ticks}
  /\ UNCHANGED <<now, tick_buffer, last_flush, conn, ohlc, buffers, processed, unwritten,
                 faults, raised, clientVars, position, intervals, bucketVars, engineVars,
                 steps, callVars>>

\* main, finally: DatabaseManager.close() up to the first await of its
\* _flush_ticks, or to its end when the buffer is empty
CloseBegin ==
  /\ pc = "close"
  /\ conn = "open"
  /\ IF tick_buffer = <<>>
       THEN /\ conn' = "closed"
            /\ pc' = "done"
            /\ shutdown_log' = shutdown_log \o <<"flush_storage", "close_storage">>
            /\ last' = Last("close", "none", {}, {})
            /\ UNCHANGED flight
       ELSE /\ flight' = Flight("executemany", batch_data(tick_buffer), "close", <<>>)
            /\ pc' = "closing"
            /\ last' = Last("close", "executemany", {}, {})
            /\ UNCHANGED <<conn, shutdown_log>>
  /\ UNCHANGED <<now, tick_buffer, last_flush, ticks, ohlc, buffers, processed,
                 unwritten, faults, raised, clientVars, resample_task, position,
                 intervals, bucketVars, engineVars, steps, callVars>>

\* analytics_task, created and cancelled by main together with resample_task:
\* a forced request of its cycle, for the first of the cycle's targets. The
\* engine reads the database and writes its own cache.
RefreshTaskStep ==
  /\ resample_task = "running"
  /\ \E available \in BOOLEAN :
       TrackedRequest(Targets[1].category, Targets[1].ttl, Targets[1].args, TRUE,
                      available)

\* main with the flushes of the tick buffer taken await by await, the wall
\* clock held
FlightNext ==
  \/ Start \/ Connect \/ HandleMessage \/ DrainStep \/ ExecutemanyReturns
  \/ CommitReturns \/ RefreshTaskStep \/ Signal \/ CancelSuspended \/ StopCancel
  \/ TaskExit \/ ClientStop \/ CloseBegin

FlightSpec == Init /\ [][FlightNext]_vars

\* ================================================================= claims
Range(seq) == {seq[n] : n \in DOMAIN seq}

DistinctTimestamps(acc) ==
  \A m, n \in DOMAIN acc : m # n => acc[m].timestamp # acc[n].timestamp

\* the trades of a collection with the smallest / largest timestamp
Earliest(acc) == CHOOSE t \in Range(acc) : \A u \in Range(acc) : t.timestamp <= u.timestamp
Latest(acc)   == CHOOSE t \in Range(acc) : \A u \in Range(acc) : u.timestamp <= t.timestamp

\* positions in `processed` of the trades of a symbol that fall in a bucket
BucketTrades(symbol, interval, bucket_start) ==
  {n \in DOMAIN processed :
     /\ processed[n].symbol = symbol
     /\ get_interval_bucket(processed[n].timestamp, interval) = bucket_start}

RECURSIVE TotalSize(_)
TotalSize(positions) ==
  IF positions = {} THEN 0
  ELSE LET n == CHOOSE x \in positions : TRUE
       IN processed[n].size + TotalSize(positions \ {n})

\* the accumulator a bar handed to insert_ohlc in this step was built from
SourceOf(bar) == buffers[bar.symbol][bar.interval][bar.timestamp]

\* C1: every bar the Resampler builds at finalization (completion rule or
\* flush_remaining) from an accumulator whose trades have distinct timestamps
\* has open = price of the earliest trade, close = price of the latest,
\* high = the maximum and low = the minimum price, volume = the sum of the
\* sizes and trade_count = the number of trades, whatever the arrival order.
C1_BarOfBucket ==
  [][\A bar \in last'.calls :
       LET acc == SourceOf(bar)
       IN /\ acc # <<>>
          /\ \A t \in Range(acc) :
               /\ t.symbol = bar.symbol
               /\ get_interval_bucket(t.timestamp, bar.interval) = bar.timestamp
          /\ DistinctTimestamps(acc) =>
               /\ bar.open = Earliest(acc).price
               /\ bar.close = Latest(acc).price
               /\ \A t \in Range(acc) : bar.low <= t.price /\ t.price <= bar.high
               /\ \E t \in Range(acc) : bar.high = t.price
               /\ \E t \in Range(acc) : bar.low = t.price
               /\ bar.volume = SumSizes(acc)
               /\ bar.trade_count = Len(acc)]_vars

\* a bar of three trades with distinct timestamps was built from trades that
\* arrived latest first
C1_Witness ==
  /\ Len(processed) = 3
  /\ processed[1].timestamp > processed[2].timestamp
  /\ processed[2].timestamp > processed[3].timestamp
  /\ \E bar \in last.calls :
       /\ bar.trade_count = 3
       /\ bar.open = processed[3].price
       /\ bar.close = processed[1].price

\* C2 (as claimed): after process_tick calls followed by flush_remaining,
\* with every bar write succeeding, the bar stored for a bucket counts every
\* processed trade of that bucket and its volume is their total size.
C2_BarAggregatesAllTrades ==
  (last.op = "flush_remaining" /\ faults = 0) =>
    \A s \in Symbols, i \in Intervals, n \in DOMAIN processed :
      LET k == get_interval_bucket(processed[n].timestamp, i)
      IN processed[n].symbol = s =>
           \A row \in ohlc :
             OhlcKey(row) = <<s, i, IsoFormat(k)>> =>
               /\ row.trade_count = Cardinality(BucketTrades(s, i, k))
               /\ row.volume = TotalSize(BucketTrades(s, i, k))

\* the trade handled by the process_tick call of this step
Handled == processed'[Len(processed')]

\* the bar of an accumulator that is open before this step
BarOf(symbol, interval, bucket_start) ==
  compute_ohlc(buffers[symbol][interval][bucket_start], symbol, interval, bucket_start)

\* the three trades of the 1s scenario
Scenario1s ==
  << TradeData("BTCUSDT", At(10, 0, 0, 100), 100, 1),
     TradeData("BTCUSDT", At(10, 0, 0, 900), 101, 2),
     TradeData("BTCUSDT", At(10, 0, 1, 200), 102, 1) >>

\* the bar of the 10:00:00 bucket in the 1s scenario
ScenarioBar ==
  [symbol |-> "BTCUSDT", interval |-> "1s", timestamp |-> IsoFormat(At(10, 0, 0, 0)),
   open |-> 100, high |-> 101, low |-> 100, close |-> 101, volume |-> 3,
   trade_count |-> 2]

\* C3: a process_tick call for a trade whose bucket key for (symbol,
\* interval) is strictly greater than the key of an open bucket finalizes
\* that bucket in the same call: its bar is handed to insert_ohlc (and is in
\* the ohlc table when the write does not fail) and its accumulator is gone.
\* In the 1s scenario the third trade stores the bar 100/101/100/101 of two
\* trades for 10:00:00.
C3_FinalizedInSameCall ==
  /\ [][processed' # processed =>
          \A i \in Intervals :
            \A k \in DOMAIN buffers[Handled.symbol][i] :
              k < get_interval_bucket(Handled.timestamp, i) =>
                /\ k \notin DOMAIN buffers'[Handled.symbol][i]
                /\ BarOf(Handled.symbol, i, k) \in last'.calls
                /\ last'.errors = {} =>
                     OhlcRow(Handled.symbol, i, BarOf(Handled.symbol, i, k)) \in ohlc']_vars
  /\ []((processed = Scenario1s /\ last.op = "process_tick") =>
          /\ \E bar \in last.calls :
               OhlcRow(bar.symbol, bar.interval, bar) = ScenarioBar
          /\ last.errors = {} => ScenarioBar \in ohlc)

\* the 1s scenario has run and its third trade finalized the 10:00:00 bucket
C3_Witness ==
  /\ processed = Scenario1s
  /\ last.op = "process_tick"
  /\ \E bar \in last.calls : OhlcRow(bar.symbol, bar.interval, bar) = ScenarioBar
  /\ ScenarioBar \in ohlc
  /\ At(10, 0, 0, 0) \notin DOMAIN buffers["BTCUSDT"]["1s"]

\* C4: every bar a process_tick call hands to insert_ohlc is the bar of a
\* bucket for which a trade of the same symbol with a strictly greater
\* bucket key (same interval) has been processed.
C4_NoEarlyFinalization ==
  last.op = "process_tick" =>
    \A bar \in last.calls :
      \E n \in DOMAIN processed :
        /\ processed[n].symbol = bar.symbol
        /\ get_interval_bucket(processed[n].timestamp, bar.interval) > bar.timestamp

\* a process_tick call persisted a bar while a trade of the other symbol with
\* a later bucket key left that symbol's older bucket open
C4_Witness ==
  /\ last.op = "process_tick"
  /\ last.calls # {}
  /\ \E s \in Symbols, n \in DOMAIN processed :
       /\ processed[n].symbol # s
       /\ \E k \in DOMAIN buffers[s]["1s"] :
            k < get_interval_bucket(processed[n].timestamp, "1s")

\* C5: flush_remaining hands the bar of every open accumulator (every symbol,
\* every configured interval, later trade seen or not) to insert_ohlc, and the
\* bar is in the ohlc table when the write does not fail; after it, when no
\* bar write has failed, the ohlc table has a row for the bucket of every
\* processed trade under every configured interval.
C5_FlushPersistsEveryOpenBucket ==
  /\ [][last'.op = "flush_remaining" =>
          \A s \in Symbols, i \in Intervals :
            \A k \in DOMAIN buffers[s][i] :
              /\ BarOf(s, i, k) \in last'.calls
              /\ last'.errors = {} => OhlcRow(s, i, BarOf(s, i, k)) \in ohlc']_vars
  /\ []((last.op = "flush_remaining" /\ faults = 0) =>
          \A n \in DOMAIN processed, i \in Intervals :
            \E row \in ohlc :
              OhlcKey(row) =
                <<processed[n].symbol, i,
                  IsoFormat(get_interval_bucket(processed[n].timestamp, i))>>)

\* flush_remaining persisted the bar of a bucket that no later trade of the
\* symbol had completed
C5_Witness ==
  /\ last.op = "flush_remaining"
  /\ faults = 0
  /\ \E bar \in last.calls :
       /\ OhlcRow(bar.symbol, bar.interval, bar) \in ohlc
       /\ \A n \in DOMAIN processed :
            processed[n].symbol = bar.symbol =>
              get_interval_bucket(processed[n].timestamp, bar.interval) <= bar.timestamp

\* C10: the ohlc table never holds two rows with the same (symbol, interval,
\* timestamp); inserting, with insert_ohlc, a bar that insert_ohlc has just
\* written leaves the table as it is; insert_ohlc never logs a key conflict.
C10_IdempotentUpsert ==
  /\ \A r1, r2 \in ohlc : OhlcKey(r1) = OhlcKey(r2) => r1 = r2
  /\ "IntegrityError" \notin last.errors
  /\ \A bar \in last.calls :
       LET once  == insert_ohlc(ohlc, bar.symbol, bar.interval, bar, TRUE)
           twice == insert_ohlc(once.table, bar.symbol, bar.interval, bar, TRUE)
       IN /\ once.error = "none" /\ twice.error = "none"
          /\ twice.table = once.table
          /\ last.errors = {} => once.table = ohlc

\* a bar was written for a key that already had a row with other values: the
\* row now in the table counts fewer trades than were processed for its
\* bucket, the others having been in the row it replaced
C10_Witness ==
  /\ faults = 0
  /\ \E bar \in last.calls :
       /\ OhlcRow(bar.symbol, bar.interval, bar) \in ohlc
       /\ bar.trade_count <
            Cardinality(BucketTrades(bar.symbol, bar.interval, bar.timestamp))

\* ------------------------------------------------------- Storage claims
\* a step of process_tick or close
StorageCall == processed' # processed \/ conn' # conn

\* the tick buffer as _flush_ticks finds it in this step
BufferAtFlush ==
  IF processed' # processed THEN Append(tick_buffer, Handled) ELSE tick_buffer

IsPrefix(a, b) == Len(a) <= Len(b) /\ \A n \in DOMAIN a : a[n] = b[n]

\* C7: a failed flush leaves the tick buffer with every trade it held and
\* writes nothing; the next successful flush appends to the tick log the whole
\* buffer, which starts with the trades the failed attempt left unwritten.
C7_FailedFlushKeepsBuffer ==
  /\ [][(StorageCall /\ last'.flush = "failed") =>
          /\ tick_buffer' = BufferAtFlush
          /\ ticks' = ticks
          /\ unwritten' = BufferAtFlush]_vars
  /\ [][(StorageCall /\ last'.flush = "ok") =>
          /\ IsPrefix(unwritten, BufferAtFlush)
          /\ ticks' = ticks \o batch_data(BufferAtFlush)
          /\ tick_buffer' = <<>>]_vars
  /\ [](IsPrefix(unwritten, tick_buffer))

\* a flush failed and a later flush wrote the trades it had left unwritten
C7_Witness ==
  /\ faults = 1
  /\ last.flush = "ok"
  /\ last.op = "process_tick"
  /\ Len(ticks) = Len(processed)
  /\ Len(ticks) > TICK_BATCH_SIZE

\* C8: insert_tick appends the trade and attempts a flush in the same call
\* exactly when the buffer has reached TICK_BATCH_SIZE or TICK_BATCH_TIMEOUT
\* has elapsed since last_flush; unless the last flush attempt failed, the
\* buffer holds fewer than TICK_BATCH_SIZE trades.
C8_FlushOnSizeOrTimeout ==
  /\ [][processed' # processed =>
          /\ (last'.flush # "none") <=>
               \/ Len(tick_buffer) + 1 >= TICK_BATCH_SIZE
               \/ now - last_flush >= TICK_BATCH_TIMEOUT
          /\ last'.flush = "none" => tick_buffer' = Append(tick_buffer, Handled)
          /\ last'.flush = "ok" => last_flush' = now]_vars
  /\ [](last.flush # "failed" => Len(tick_buffer) < TICK_BATCH_SIZE)

\* the buffer reached TICK_BATCH_SIZE before the timeout and was flushed
C8_Witness ==
  /\ last.op = "process_tick"
  /\ last.flush = "ok"
  /\ now = 0
  /\ Len(ticks) = TICK_BATCH_SIZE
  /\ tick_buffer = <<>>

\* C9 (as claimed): once close() has returned, every trade passed to
\* insert_tick is in the tick log and the buffer is empty.
C9_CloseLeavesNothingBuffered ==
  last.op = "close" =>
    /\ tick_buffer = <<>>
    /\ \A n \in DOMAIN processed : TickRow(processed[n]) \in Range(ticks)

\* C6 (as claimed): when main's shutdown has completed, the steps taken were
\* stop ingestion, cancel the resample task, flush the Resampler's buckets,
\* flush the tick buffer, close the connection, in this order.
C6_ShutdownOrder ==
  pc = "done" =>
    shutdown_log = <<"stop_ingestion", "cancel_resample", "flush_resampler",
                     "flush_storage", "close_storage">>

\* C16: a process_tick call hands its trade to insert_tick, so the trade is the
\* newest entry of the tick buffer or, when the call flushed, of the tick log;
\* and for every configured interval the trade is appended to the accumulator
\* of its bucket and to no other accumulator
C16_TickStoredAndAccumulated ==
  [][Len(processed') = Len(processed) + 1 =>
       LET tick == processed'[Len(processed')]
       IN /\ \/ /\ tick_buffer' # <<>>
                 /\ tick_buffer'[Len(tick_buffer')] = tick
                 /\ Len(tick_buffer') = Len(tick_buffer) + 1
              \/ /\ tick_buffer' = <<>>
                 /\ Len(ticks') = Len(ticks) + Len(tick_buffer) + 1
                 /\ ticks'[Len(ticks')] = TickRow(tick)
          /\ \A n \in DOMAIN intervals :
               LET i   == intervals[n]
                   b   == get_interval_bucket(tick.timestamp, i)
                   old == buffers[tick.symbol][i]
                   new == buffers'[tick.symbol][i]
               IN /\ b \in DOMAIN new
                  /\ new[b] = (IF b \in DOMAIN old THEN old[b] ELSE <<>>) \o <<tick>>
                  /\ \A k \in (DOMAIN new) \ {b} : k \in DOMAIN old /\ new[k] = old[k]]_vars

C16_Witness ==
  /\ Len(processed) = 3
  /\ Len(ticks) = TICK_BATCH_SIZE
  /\ Len(tick_buffer) = 1
  /\ \E s \in Symbols : \E k \in DOMAIN buffers[s]["1m"] : Len(buffers[s]["1m"][k]) = 3

\* C17: an interval tag other than 1s, 1m, 5m, 15m, 1h makes get_interval_bucket
\* raise ValueError, and a process_tick call of a Resampler configured with such
\* a tag raises to its caller
C17_UnsupportedIntervalReported ==
  /\ \A t \in {f.timestamp : f \in Feed} : get_interval_bucket(t, "2m") = ValueError
  /\ (last.op = "process_tick"
        /\ \E n \in DOMAIN intervals : intervals[n] \notin SupportedIntervals)
       => raised = ValueError

\* C18: get_interval_bucket(get_interval_bucket(t, I), I) = get_interval_bucket(t, I)
\* for every timestamp t and every supported interval I: applied to its own
\* result, the function returns that result again
C18_BucketIdempotent ==
  \A n \in DOMAIN bucket_out : bucket_out[n] = bucket_out[1]

C18_Witness ==
  /\ Len(bucket_out) = MaxApplications
  /\ bucket_in.interval = "5m"
  /\ Minute(bucket_in.timestamp) = 18
  /\ Minute(bucket_out[1]) = 15

\* ------------------------------------------------------------------ cache
\* the TTL get_symbol_analytics / get_pairs_analytics pass to _get_cached
TtlOf(category) ==
  IF category = "symbol_analytics" THEN CACHE_TTL_STATS ELSE CACHE_TTL_REGRESSION

\* a step in which the engine answers a request
RequestStep ==
  /\ etime' = etime
  /\ response' # response \/ cache' # cache \/ cache_time' # cache_time

\* the entry under a key exists and its age is below the TTL
Fresh(key, ttl) ==
  /\ key \in DOMAIN cache_time
  /\ etime - cache_time[key] < ttl

\* a non-forced request whose entry is fresh returns the cached value, runs no
\* computation and leaves the cache as it is
HitReturnsCached ==
  (RequestStep /\ ~response'.force /\ Fresh(response'.key, TtlOf(response'.category)))
    => /\ response'.computed = "no"
       /\ response'.result = cache[response'.key]
       /\ cache' = cache
       /\ cache_time' = cache_time

\* a non-forced request whose entry has reached the TTL
Expired ==
  /\ RequestStep
  /\ ~response'.force
  /\ response'.key \in DOMAIN cache_time
  /\ ~Fresh(response'.key, TtlOf(response'.category))

\* C19 as stated: a non-forced call within the TTL returns the cached value
\* with no recomputation; a call once the age has reached the TTL recomputes
\* and stores an entry computed now
C19_MissRecomputesAndStores ==
  [][/\ HitReturnsCached
     /\ Expired => /\ response'.computed # "no"
                   /\ cache_time'[response'.key] = etime
                   /\ cache'[response'.key].last_update = etime]_vars

\* C19, amended: a non-forced call within the TTL returns the cached value
\* with no recomputation; a call once the age has reached the TTL recomputes;
\* when the computation yields a result, the result is returned and stored as
\* computed now; when it yields none, the call returns no result and the cache
\* is left as it is
C19_CacheHitWithinTtl ==
  [][/\ HitReturnsCached
     /\ Expired =>
          /\ response'.computed # "no"
          /\ response'.computed = "result"
               => /\ response'.result.last_update = etime
                  /\ cache'[response'.key] = response'.result
                  /\ cache_time'[response'.key] = etime
          /\ response'.computed = "none"
               => /\ response'.result = None
                  /\ cache' = cache
                  /\ cache_time' = cache_time]_vars

C19_Witness ==
  /\ ~response.force
  /\ response.computed = "no"
  /\ response.category = "pairs_analytics"
  /\ etime - response.result.last_update = CACHE_TTL_STATS
  /\ \E k \in DOMAIN cache_time :
       /\ cache[k].category = "symbol_analytics"
       /\ cache_time[k] = etime
       /\ cache[k].last_update = etime

\* C20: a request is answered only from an entry computed for the same
\* category and the same argument values: requests that differ in category or
\* in an argument never read or overwrite each other's entry
C20_StructuredCacheKey ==
  response.result # None
    => /\ response.result.category = response.category
       /\ response.result.args = response.args

\* --------------------------------------------------------------- ingestion
\* C11: when a symbol's queue is full, handling a message leaves the queue as it
\* is: the newest trade is dropped (a warning is logged), nothing is evicted.
\* With no consumer, a queue that has dropped a trade holds exactly the first
\* BUFFER_SIZE trades that were offered
C11_FullQueueDropsNewest ==
  /\ [][\A s \in ClientSymbolSet :
         (received' = received + 1 /\ Len(queues[s]) = BUFFER_SIZE)
           => /\ queues'[s] = queues[s]
              /\ tick_counts'[s] = tick_counts[s]]_vars
  /\ [](\A s \in ClientSymbolSet :
         (delivered[s] = <<>> /\ dropped[s] > 0)
           => /\ Len(queues[s]) = BUFFER_SIZE
              /\ queues[s] = enqueued[s])

C11_Witness ==
  \E s \in ClientSymbolSet :
    /\ dropped[s] = 1
    /\ delivered[s] = <<>>
    /\ received = BUFFER_SIZE + 1
    /\ Len(queues[s]) = BUFFER_SIZE

\* C12: tick_counts[symbol] is the number of trades put on the symbol's queue:
\* it equals the trades dequeued so far plus the trades queued now, it grows by
\* one exactly in the step that appends a trade to the queue, and a step that
\* drops a trade or handles any other message leaves it as it is
C12_TickCountCountsEnqueued ==
  /\ [](\A s \in ClientSymbolSet :
         /\ tick_counts[s] = Len(enqueued[s])
         /\ tick_counts[s] = Len(delivered[s]) + Len(queues[s]))
  /\ [][\A s \in ClientSymbolSet :
         /\ tick_counts'[s] # tick_counts[s]
              => /\ tick_counts'[s] = tick_counts[s] + 1
                 /\ Len(queues'[s]) = Len(queues[s]) + 1
                 /\ SubSeq(queues'[s], 1, Len(queues[s])) = queues[s]
         /\ Len(queues'[s]) > Len(queues[s]) => tick_counts'[s] = tick_counts[s] + 1
         /\ (received' = received + 1 /\ queues'[s] = queues[s])
              => tick_counts'[s] = tick_counts[s]]_vars

C12_Witness ==
  \E s \in ClientSymbolSet :
    /\ dropped[s] = 1
    /\ Len(delivered[s]) = 1
    /\ Len(queues[s]) = 1
    /\ tick_counts[s] = 2

\* C13: while the client runs, a connection attempt that fails or a connection
\* that ends puts the task to sleep; the sleep ends with retry_delay doubled, up
\* to RECONNECT_MAX_DELAY, before the next attempt; a successful connect resets
\* retry_delay to RECONNECT_DELAY_BASE
C13_BackoffAfterEveryOutage ==
  [][\A s \in ClientSymbolSet :
       /\ (running' /\ tasks[s] \in {"connecting", "connected"}
              /\ tasks'[s] \notin {tasks[s], "connected"})
            => tasks'[s] \in {"sleep_ws", "sleep_exc"}
       /\ (tasks[s] \in {"sleep_ws", "sleep_exc"} /\ tasks'[s] = "connecting")
            => retry_delay'[s] = Min(retry_delay[s] * 2, RECONNECT_MAX_DELAY)
       /\ (tasks[s] = "connecting" /\ tasks'[s] = "connected")
            => retry_delay'[s] = RECONNECT_DELAY_BASE]_vars

\* C14: once stop() has returned, every per-symbol task is done, and from then
\* on no task changes state (no connection attempt) and no trade is enqueued
\* or counted
C14_StoppedClientStaysStopped ==
  /\ [](pc \in {"close", "done"} => \A s \in ClientSymbolSet : tasks[s] = "done")
  /\ [][(pc \in {"close", "done"})
         => (UNCHANGED <<tasks, retry_delay, queues, enqueued, tick_counts, dropped>>)]_vars

C14_Witness ==
  /\ pc = "close"
  /\ \E s \in ClientSymbolSet : tick_counts[s] > 0
  /\ \E s \in ClientSymbolSet : retry_delay[s] > RECONNECT_DELAY_BASE

\* the trades of a symbol passed to process_tick, in call order
ProcessedOf(symbol) == SelectSeq(processed, LAMBDA t : t.symbol = symbol)

\* C15: per symbol, the trades get_next_tick has returned followed by the trades
\* still queued are the trades enqueued, in enqueue order, and the trades passed
\* to process_tick are the trades returned, in that order
C15_DrainIsFifo ==
  \A s \in ClientSymbolSet :
    /\ delivered[s] \o queues[s] = enqueued[s]
    /\ ProcessedOf(StreamSymbol[s]) = delivered[s]

C15_Witness ==
  \E s \in ClientSymbolSet :
    /\ Len(delivered[s]) = 2
    /\ delivered[s][1] # delivered[s][2]
    /\ queues[s] # <<>>

\* C24: compute_zscore returns a list as long as its input, for every input
\* and window; when the input is at least window long the first window - 1
\* entries are NaN, and when it is shorter every entry is NaN.
C24_ZscoreKeepsLength ==
  (call.op = "compute_zscore" /\ ret # <<>>) =>
    LET z == ret[1]
        n == Len(call.values)
    IN /\ Len(z) = n
       /\ n >= call.window =>
            \A i \in 1..n : i <= call.window - 1 => isnan(z[i])
       /\ n < call.window => \A i \in 1..n : isnan(z[i])

\* a series longer than its window has come back with defined z-scores
\* after the undefined ones
C24_Witness ==
  /\ call.op = "compute_zscore" /\ ret # <<>>
  /\ call.window >= 2 /\ Len(call.values) > call.window
  /\ \E i \in 1..Len(ret[1]) : ~isnan(ret[1][i])
  /\ isnan(ret[1][1])

\* C27: get_ticks and get_ohlc return only rows of the requested symbol (and
\* interval) whose timestamp lies in [start, end], in ascending timestamp
\* order, and at most `limit` rows when a limit is given.
C27_QueryContract ==
  (call.op \in {"get_ticks", "get_ohlc"} /\ ret # <<>>) =>
    LET rows == ret[1]
    IN /\ \A n \in DOMAIN rows :
            /\ rows[n].symbol = call.symbol
            /\ call.op = "get_ohlc" => rows[n].interval = call.interval
            /\ call.start <= rows[n].timestamp /\ rows[n].timestamp <= call.end
       /\ \A i, j \in DOMAIN rows : i < j => rows[i].timestamp <= rows[j].timestamp
       /\ call.limit # NoLimit => Len(rows) <= call.limit[1]

\* the same with the cases the code serves: a limit of at least 1, or none
C27_QueryContractPositiveLimit ==
  (call.op \in {"get_ticks", "get_ohlc"} /\ ret # <<>>) =>
    LET rows == ret[1]
    IN /\ \A n \in DOMAIN rows :
            /\ rows[n].symbol = call.symbol
            /\ call.op = "get_ohlc" => rows[n].interval = call.interval
            /\ call.start <= rows[n].timestamp /\ rows[n].timestamp <= call.end
       /\ \A i, j \in DOMAIN rows : i < j => rows[i].timestamp <= rows[j].timestamp
       /\ (call.limit # NoLimit /\ call.limit[1] > 0) => Len(rows) <= call.limit[1]

\* the stored bars of the call's symbol and interval in the lookback range
StoredInRange ==
  {r \in call.ohlc : /\ r.symbol = call.symbol /\ r.interval = call.interval
                     /\ Between(r.timestamp, IsoFormat(Lookback(call.clock, 24)),
                                IsoFormat(call.clock))}

\* the n of them with the latest timestamps
LatestBars(n) ==
  {r \in StoredInRange :
     Cardinality({q \in StoredInRange : TextLess(r.timestamp, q.timestamp)}) < n}

RECURSIVE SumOver(_, _)
SumOver(rows, field) ==
  IF rows = {} THEN 0
  ELSE LET r == CHOOSE r \in rows : TRUE IN r[field] + SumOver(rows \ {r}, field)

\* C29: compute_price_stats and compute_volume_stats compute over the last
\* N = window bars: when more than N bars are stored in the lookback range,
\* the bars used are the N with the latest timestamps, and `current` is the
\* close of the newest stored bar.
C29_StatsOverLatestBars ==
  (/\ call.op \in {"compute_price_stats", "compute_volume_stats"}
   /\ ret # <<>> /\ ret[1].value # None
   /\ call.window > 0 /\ Cardinality(StoredInRange) > call.window) =>
    /\ ret[1].value.window_size = call.window
    /\ call.op = "compute_price_stats" =>
         /\ ret[1].value.sum = SumOver(LatestBars(call.window), "close")
         /\ \A r \in LatestBars(1) : ret[1].value.current = r.close
    /\ call.op = "compute_volume_stats" =>
         ret[1].value.total_volume = SumOver(LatestBars(call.window), "volume")

\* the timestamps at which both symbols of the call have a bar stored
CommonTimestamps ==
  {r.timestamp : r \in {b \in call.ohlc : b.symbol = call.symbol_x}}
    \cap {r.timestamp : r \in {b \in call.ohlc : b.symbol = call.symbol_y}}

\* C26: compute_rolling_correlation returns no result whenever the two
\* symbols have fewer common bar timestamps than MIN_DATA_POINTS_CORRELATION
\* or than `window`, for every window.
C26_CorrelationNeedsAlignedBars ==
  (call.op = "compute_rolling_correlation" /\ ret # <<>>) =>
    ((\/ Cardinality(CommonTimestamps) < MIN_DATA_POINTS_CORRELATION
      \/ Cardinality(CommonTimestamps) < call.window)
       => ret[1].value = None)

\* the part that holds: fewer common timestamps than `window`, or fewer bars
\* of either symbol than the minimum, give no result
C26_CorrelationNeedsWindowAndBars ==
  (call.op = "compute_rolling_correlation" /\ ret # <<>>) =>
    ((\/ Cardinality(CommonTimestamps) < call.window
      \/ \E sym \in {call.symbol_x, call.symbol_y} :
           Cardinality({b \in call.ohlc : b.symbol = sym}) < MIN_DATA_POINTS_CORRELATION)
       => ret[1].value = None)

\* C22: compute_ols_hedge_ratio returns no result whenever |beta| > 3.0, or
\* R^2 < 0.3, or the standard error of beta exceeds |beta|, and a fit none
\* of the three rejects is returned as the result; so a regression that
\* finds |beta| = 5 makes get_pairs_analytics return no result.
C22_GatesSuppressFit ==
  /\ (call.op = "compute_ols_hedge_ratio" /\ ret # <<>>) =>
       /\ (\/ abs(call.fit.slope) > 30
           \/ call.fit.r_squared < 30
           \/ call.fit.std_err > abs(call.fit.slope)) => ret[1].value = None
       /\ (/\ ret[1].fitted
           /\ abs(call.fit.slope) <= 30
           /\ call.fit.r_squared >= 30
           /\ call.fit.std_err <= abs(call.fit.slope)) =>
            /\ ret[1].value # None
            /\ ret[1].value.hedge_ratio = call.fit.slope
  /\ (/\ call.op = "get_pairs_analytics" /\ ret # <<>>
      /\ steps # <<>>
      /\ abs(call.env.fit.slope) = 50) => ret[1] = None

\* a request whose regression found beta = -5 has come back with no result
C22_Witness ==
  /\ call.op = "get_pairs_analytics" /\ ret = <<None>>
  /\ call.env.fit.slope = -50
  /\ call.env.fit.r_squared >= 30 /\ call.env.fit.std_err <= 50
  /\ steps = <<"compute_ols_hedge_ratio">>

\* a pairs request that was not served from the cache returns
PairsComputed ==
  /\ call.op = "get_pairs_analytics"
  /\ ret = <<>> /\ ret' # <<>>
  /\ steps' # <<>>

\* C21: get_pairs_analytics runs regression, spread, z-score, ADF test and
\* rolling correlation in this order and stops at the first failure: with
\* no regression result, or a spread of fewer than 20 points, it returns no
\* result and writes nothing to the cache; an absent ADF or correlation
\* result does not abort it, and the bundle then carries the other pieces
\* and last_update.
C21_PairsPipelineShortCircuits ==
  [][PairsComputed =>
       LET env == call.env
           bundle == ret'[1]
           regression_absent == \/ env.fit.flat
                                \/ abs(env.fit.slope) > 30
                                \/ env.fit.r_squared < 30
                                \/ env.fit.std_err > abs(env.fit.slope)
           adf_absent == env.adf_fault \/ Len(env.spread) < MIN_DATA_POINTS_ADF
       IN /\ steps' = SubSeq(PairsSteps, 1, Len(steps'))
          /\ regression_absent =>
               /\ bundle = None /\ Len(steps') = 1
               /\ cache' = cache /\ cache_time' = cache_time
          /\ (~regression_absent /\ Len(env.spread) < 20) =>
               /\ bundle = None /\ Len(steps') = 2
               /\ cache' = cache /\ cache_time' = cache_time
          /\ (~regression_absent /\ Len(env.spread) >= 20) =>
               /\ bundle # None /\ steps' = PairsSteps
               /\ bundle.regression # None
               /\ bundle.regression.hedge_ratio = env.fit.slope
               /\ bundle.spread = env.spread
               /\ Len(bundle.z_score) = Len(env.spread)
               /\ (bundle.adf_test = None) <=> adf_absent
               /\ bundle.correlation = env.correlation
               /\ bundle.last_update = etime
               /\ cache'[response'.key] = bundle
               /\ cache_time'[response'.key] = etime]_vars

\* a bundle has come back without ADF result and without correlation
C21_Witness ==
  /\ call.op = "get_pairs_analytics" /\ ret # <<>> /\ ret[1] # None
  /\ steps = PairsSteps
  /\ ret[1].adf_test = None /\ ret[1].correlation = None
  /\ ret[1].regression # None /\ Len(ret[1].z_score) = Len(ret[1].spread)
  /\ response.key \in DOMAIN cache /\ cache[response.key] = ret[1]

\* the value that stands for "no result": the empty list for the spread,
\* None for every other operation
NoResult == IF call.op = "compute_spread" THEN <<>> ELSE None

\* the bars stored for a symbol of the call
BarsOf(symbol) == {b \in call.ohlc : b.symbol = symbol /\ b.interval = call.interval}

\* C25: no sub-analyzer operation (price stats, volume stats, regression,
\* spread, ADF test, rolling correlation, correlation matrix) raises to its
\* caller: an internal fault, a failing Storage query and insufficient data
\* all come back as None, or as the empty list for the spread.
C25_AnalyzersNeverRaise ==
  (call.op # "none" /\ ret # <<>>) =>
    /\ ret[1].raised = "none"
    /\ call.fault => ret[1].value = NoResult
    /\ ("canRead" \in DOMAIN call /\ ~call.canRead) => ret[1].value = NoResult
    /\ (call.op \in {"compute_price_stats", "compute_volume_stats"}
          /\ Cardinality(BarsOf(call.symbol)) < MIN_DATA_POINTS_STATS) =>
         ret[1].value = None
    /\ (call.op \in {"compute_ols_hedge_ratio", "compute_spread",
                      "compute_rolling_correlation"}
          /\ (BarsOf(call.symbol_x) = {} \/ BarsOf(call.symbol_y) = {})) =>
         ret[1].value = NoResult
    /\ (call.op = "adf_test_on_values" /\ Len(call.values) < MIN_DATA_POINTS_ADF) =>
         ret[1].value = None

\* a correlation matrix whose computation raised, with enough bars of both
\* symbols stored, has been answered with None
C25_Witness ==
  /\ ret # <<>> /\ ret[1].raised = "none"
  /\ call.op = "compute_correlation_matrix" /\ call.fault /\ call.canRead
  /\ ret[1].value = None
  /\ Cardinality(BarsOf("BTCUSDT")) >= call.window
  /\ Cardinality(BarsOf("ETHUSDT")) >= call.window

\* C23: update_analytics_loop never terminates because a cycle failed: when
\* a cycle ends, with an exception or without, the loop sleeps; when the
\* sleep ends, interval_seconds later, the next cycle starts; only
\* cancellation ends the task.
C23_LoopSurvivesFailedCycle ==
  [][/\ (loop.pc = "cycle" /\ loop'.pc # "cycle") => loop'.pc \in {"sleep", "cancelled"}
     /\ (loop.pc = "sleep" /\ loop'.pc # "sleep") =>
          \/ loop'.pc = "cancelled"
          \/ /\ loop'.pc = "cycle" /\ loop'.target = 1
             /\ loop'.cycles = loop.cycles + 1
             /\ etime' = etime + ANALYTICS_UPDATE_INTERVAL
     /\ loop'.pc # "terminated"]_vars

\* a cycle is under way after one that ended with an exception
C23_Witness ==
  /\ loop.pc = "cycle" /\ loop.cycles >= 2
  /\ loop.previous \in CycleOutcomes \ {"returned"}

\* C28: a trade never stays in the tick buffer beyond the time threshold:
\* while the database is open and no write has failed, a non-empty buffer
\* means that no more than TICK_BATCH_TIMEOUT has passed since the last
\* flush, whether or not a further trade arrives.
C28_NoTradeBufferedPastTimeout ==
  (conn = "open" /\ faults = 0 /\ tick_buffer # <<>>) =>
    now - last_flush <= TICK_BATCH_TIMEOUT

\* what does hold: the timeout is looked at only when a trade is inserted; a
\* step that is not insert_tick or close leaves the buffer as it is, however
\* long ago the last flush was
C28_FlushOnlyOnInsertOrClose ==
  [][(processed' = processed /\ conn' = conn) => tick_buffer' = tick_buffer]_vars

\* C30: while the client is running a connection failure is never fatal: no
\* per-symbol task is done while `running` is set, a task whose connection
\* attempt or connection fails goes to its back-off sleep, and a sleeping
\* task always eventually makes another connection attempt unless the client
\* is stopped first.
C30_ConnectionFailureNeverFatal ==
  /\ [](running => \A symbol \in ClientSymbolSet : tasks[symbol] # "done")
  /\ [][\A symbol \in ClientSymbolSet :
          (running /\ running' /\ tasks[symbol] \in {"connecting", "connected"}
             /\ tasks'[symbol] # tasks[symbol])
            => tasks'[symbol] \in {"connected", "connecting", "sleep_ws", "sleep_exc"}]_vars
  /\ \A symbol \in ClientSymbolSet :
       (tasks[symbol] \in {"sleep_ws", "sleep_exc"})
         ~> (tasks[symbol] = "connecting" \/ ~running)

\* a task is connecting again, the client running, after failures that
\* raised its back-off delay
C30_Witness ==
  \E symbol \in ClientSymbolSet :
    /\ running /\ tasks[symbol] = "connecting"
    /\ retry_delay[symbol] > RECONNECT_DELAY_BASE

\* C32: bucket accumulators are destroyed on forced flush: after
\* flush_remaining has returned, the Resampler holds no accumulator.
C32_FlushDestroysAccumulators ==
  last.op = "flush_remaining" =>
    \A s \in Symbols, i \in Intervals : buffers[s][i] = NoBuckets

\* what does hold: flush_remaining leaves every accumulator as it was (it
\* has no del), so a second flush_remaining hands the same bars to
\* insert_ohlc again
C32_FlushKeepsAccumulators ==
  [][last'.op = "flush_remaining" =>
       /\ buffers' = buffers
       /\ last'.calls = UNION {remaining_bars(buffers, i) : i \in Intervals}]_vars

\* C34: whenever a process_tick call discards a bucket accumulator, the ohlc
\* table holds a bar for that bucket after the call, also when insert_ohlc
\* fails.
C34_DiscardedBucketIsStored ==
  [][processed' # processed =>
       \A s \in Symbols, i \in Intervals :
         \A k \in (DOMAIN buffers[s][i]) \ (DOMAIN buffers'[s][i]) :
           \E row \in ohlc' : OhlcKey(row) = <<s, i, IsoFormat(k)>>]_vars

\* what does hold: the accumulator is discarded whether or not its bar was
\* written, and the bar is in the table when insert_ohlc logged no error
C34_DiscardedBucketIsStoredUnlessWriteFails ==
  [][processed' # processed =>
       \A s \in Symbols, i \in Intervals :
         \A k \in (DOMAIN buffers[s][i]) \ (DOMAIN buffers'[s][i]) :
           last'.errors = {} =>
             \E row \in ohlc' : OhlcKey(row) = <<s, i, IsoFormat(k)>>]_vars

\* the trades of each symbol were processed in non-decreasing timestamp order
ProcessedInOrder ==
  \A m, n \in DOMAIN processed :
    (m < n /\ processed[m].symbol = processed[n].symbol) =>
      processed[m].timestamp <= processed[n].timestamp

\* the positions in `processed` of the trades of a symbol
TradesOf(symbol) == {n \in DOMAIN processed : processed[n].symbol = symbol}

\* C39: when the trades of each symbol are processed in non-decreasing
\* timestamp order, the Resampler holds, for every symbol and interval, no
\* accumulator before the symbol's first trade and afterwards exactly one, the
\* bucket of the symbol's latest trade: at most symbols x intervals in all.
C39_OneOpenBucketPerSymbolInterval ==
  ProcessedInOrder =>
    \A s \in Symbols, i \in Intervals :
      DOMAIN buffers[s][i] =
        IF TradesOf(s) = {} THEN {}
        ELSE {get_interval_bucket(processed[MaxOf(TradesOf(s))].timestamp, i)}

\* three trades in order, of both symbols, the last one opening a new 1s
\* bucket of its symbol
C39_Witness ==
  /\ ProcessedInOrder
  /\ last.op = "process_tick"
  /\ Len(processed) = 3
  /\ TradesOf("ETHUSDT") # {}
  /\ \E m, n \in TradesOf("BTCUSDT") :
       get_interval_bucket(processed[m].timestamp, "1s")
         < get_interval_bucket(processed[n].timestamp, "1s")

\* the test of insert_tick on a buffer, a clock reading and a last_flush
FlushDue(buffer, clock, lastFlushAt) ==
  Len(buffer) >= TICK_BATCH_SIZE \/ clock - lastFlushAt >= TICK_BATCH_TIMEOUT

\* C38: a flush that fails inside insert_tick leaves last_flush and the
\* buffer's trades as they are, so the test that triggered it is still true;
\* the test stays true in every step that is not a successful flush; and an
\* insert_tick made while it is true attempts the flush again.
C38_FailedFlushIsRetried ==
  /\ [][(processed' # processed /\ last'.flush = "failed") =>
          /\ last_flush' = last_flush
          /\ tick_buffer' = Append(tick_buffer, Handled)
          /\ FlushDue(tick_buffer', now', last_flush')]_vars
  /\ [][(tick_buffer # <<>> /\ FlushDue(tick_buffer, now, last_flush)
           /\ last'.flush # "ok") =>
          (tick_buffer' # <<>> /\ FlushDue(tick_buffer', now', last_flush'))]_vars
  /\ [][(processed' # processed /\ tick_buffer # <<>>
           /\ FlushDue(tick_buffer, now, last_flush)) =>
          last'.flush \in {"ok", "failed"}]_vars

\* a flush failed on the timeout with fewer than TICK_BATCH_SIZE trades
\* buffered, and the insert_tick after it wrote the whole buffer
C38_Witness ==
  /\ faults = 1 /\ conn = "open"
  /\ last.op = "process_tick" /\ last.flush = "ok"
  /\ Len(processed) = 2 /\ Len(ticks) = 2
  /\ now >= TICK_BATCH_TIMEOUT
  /\ last_flush = now

\* C37: a cache hit for a key returns a value computed no earlier than the
\* last forced refresh of that key, whether or not that refresh produced a
\* result.
C37_HitNotOlderThanForcedRefresh ==
  (response.computed = "no" /\ response.result # None
     /\ response.key \in DOMAIN refreshed) =>
    response.result.last_update >= refreshed[response.key]

\* what does hold: a forced refresh that produces a result stores it as
\* computed now; one that produces none returns None and leaves the entry
\* and its time as they were, so the entry keeps answering until its TTL ends
C37_ForcedRefreshWithoutResultKeepsEntry ==
  [][(RequestStep /\ response'.force) =>
       /\ response'.computed = "result" =>
            /\ cache'[response'.key].last_update = etime
            /\ cache_time'[response'.key] = etime
       /\ response'.computed # "result" =>
            /\ response'.result = None
            /\ cache' = cache /\ cache_time' = cache_time]_vars

\* compute_correlation_matrix has returned a matrix
MatrixReturned ==
  /\ call.op = "compute_correlation_matrix"
  /\ ret # <<>>
  /\ ret[1].value # None

\* the symbols of the call with at least `window` bars in the lookback
Qualifying ==
  matrix_symbols(call.ohlc, call.symbols, call.interval, call.window, call.clock,
                 call.canRead)

\* C33: in the matrix compute_correlation_matrix returns, row i of every
\* symbol's price column belongs to the same timestamp (the columns are taken
\* over the timestamps the qualifying symbols have in common).
C33_MatrixOverCommonTimestamps ==
  MatrixReturned =>
    \A a, b \in Qualifying :
      matrix_timestamps(call.ohlc, a, call.interval, call.window, call.clock,
                        call.canRead)
        = matrix_timestamps(call.ohlc, b, call.interval, call.window, call.clock,
                            call.canRead)

\* what does hold: symbols with fewer than `window` bars are left out, fewer
\* than two qualifying symbols give no result, and each column is the closes
\* of the symbol's own latest `window` bars
C33_MatrixOverOwnLatestBars ==
  (call.op = "compute_correlation_matrix" /\ ret # <<>> /\ ~call.fault) =>
    /\ (ret[1].value = None) <=> (Cardinality(Qualifying) < 2)
    /\ ret[1].value # None =>
         /\ DOMAIN ret[1].value = Qualifying \X Qualifying
         /\ \A a \in Qualifying :
              /\ Cardinality(BarsOf(a)) >= call.window
              /\ Len(matrix_timestamps(call.ohlc, a, call.interval, call.window,
                                        call.clock, call.canRead)) = call.window

\* the symbols under which the ingestion and resampling path persists: the
\* symbol field of the feed's messages
PersistedSymbols == {trade.symbol : trade \in Feed}

\* the rows a refresh request for one symbol selects from the bars that the
\* resampler stored for the feed's symbols
RefreshedRows(symbol) ==
  stats_bars(FullTable, symbol, "1m", MaxBars, StatsClock, TRUE)

\* C40: whenever the refresh cycle has issued get_symbol_analytics, the symbol
\* it passed is one of the identifiers under which ingestion persists trades
\* and bars, so the request's query selects rows that ingestion wrote
C40_RefreshQueriesPersistedSymbols ==
  (loop.cycles >= 1 /\ response.category = "symbol_analytics" /\ response.force)
    => /\ response.args[1][1] \in PersistedSymbols
       /\ RefreshedRows(response.args[1][1]) # <<>>

\* what does hold: the pair targets of the cycle name persisted symbols, and
\* a symbol target names the lower-case stream name of one, whose query
\* selects no stored row
C40_PairTargetsArePersistedSymbols ==
  (loop.cycles >= 1 /\ response.force)
    => IF response.category = "pairs_analytics"
         THEN /\ {response.args[1][1], response.args[2][1]} \subseteq PersistedSymbols
              /\ RefreshedRows(response.args[1][1]) # <<>>
              /\ RefreshedRows(response.args[2][1]) # <<>>
         ELSE /\ response.args[1][1] \in ClientSymbolSet
              /\ StreamSymbol[response.args[1][1]] \in PersistedSymbols
              /\ RefreshedRows(response.args[1][1]) = <<>>
              /\ RefreshedRows(StreamSymbol[response.args[1][1]]) # <<>>

\* C35: when main has returned, no trade is left in a per-symbol queue: every
\* trade that was enqueued (and counted in tick_counts) has been taken by the
\* drain loop and passed to process_tick
C35_NoTradeLeftQueuedAtShutdown ==
  pc = "done" =>
    \A symbol \in ClientSymbolSet :
      /\ queues[symbol] = <<>>
      /\ delivered[symbol] = enqueued[symbol]
      /\ Range(enqueued[symbol]) \subseteq Range(processed)

\* what does hold: at shutdown every enqueued trade was either passed to
\* process_tick or is still in its queue, in arrival order, and the counter
\* counts both
C35_QueuedTradesStayQueued ==
  pc = "done" =>
    \A symbol \in ClientSymbolSet :
      /\ enqueued[symbol] = delivered[symbol] \o queues[symbol]
      /\ Range(delivered[symbol]) \subseteq Range(processed)
      /\ tick_counts[symbol] = Len(enqueued[symbol])

\* C31: under every interleaving of the drain loop, the refresh task, the
\* ingestion tasks and main's shutdown, the tick buffer changes only by the
\* append of the trade that process_tick is handling and by the clear at the
\* end of a flush, and what that clear removes is exactly the batch that this
\* flush wrote to the tick log
C31_ClearRemovesOnlyTheWrittenBatch ==
  [][tick_buffer' # tick_buffer =>
       \/ /\ Len(processed') = Len(processed) + 1
          /\ tick_buffer' = Append(tick_buffer, processed'[Len(processed')])
       \/ /\ flight.phase = "commit"
          /\ tick_buffer' = <<>>
          /\ flight.batch = [n \in DOMAIN tick_buffer |-> TickRow(tick_buffer[n])]
          /\ Len(ticks) >= Len(flight.batch)
          /\ SubSeq(ticks, Len(ticks) - Len(flight.batch) + 1, Len(ticks)) = flight.batch
          /\ ticks' = ticks]_vars

\* close() has cleared the buffer after insert_tick had cleared it before,
\* the refresh task having run in between
C31_Witness ==
  /\ pc = "done"
  /\ last.op = "close" /\ last.flush = "ok"
  /\ tick_buffer = <<>>
  /\ Len(processed) > TICK_BATCH_SIZE
  /\ ticks = batch_data(processed)
  /\ response.force

\* C36: when no write has failed, once main is done every trade passed to
\* insert_tick is in the tick log exactly once, whatever await a flush was
\* suspended in when the resample task was cancelled
C36_EachTradeWrittenOnce ==
  (pc = "done" /\ faults = 0) => ticks = batch_data(processed)

\* what does hold: every trade passed to insert_tick is written, in order,
\* once or twice; it is written twice only when the resample task was
\* cancelled inside a flush
C36_EachTradeWrittenOnceOrTwice ==
  (pc = "done" /\ faults = 0) =>
    /\ \A n \in DOMAIN processed :
         Cardinality({m \in DOMAIN ticks : ticks[m] = TickRow(processed[n])})
           \in {Cardinality({k \in DOMAIN processed : processed[k] = processed[n]}),
                2 * Cardinality({k \in DOMAIN processed : processed[k] = processed[n]})}
    /\ Range(ticks) = Range(batch_data(processed))
    /\ ticks # batch_data(processed) => "cancel_resample" \in Range(shutdown_log)

====
